---- MODULE Spec2Model ----
(***************************************************************************)
(* NPM emulator stack: the emulator server (accept loop, command           *)
(* handlers, buffer registry, tiled matmul with the memory-hierarchy and   *)
(* DMA models) and the in-process mock device.                             *)
(*                                                                         *)
(* Memory is modelled by addresses: a mapping is an interval of byte       *)
(* addresses, nullptr is address 0, and every operand access of a matmul   *)
(* is recorded as the half-open byte interval [lo, hi) it touches.         *)
(***************************************************************************)
EXTENDS Integers, Sequences, FiniteSets, TLC

\* ------------------------------------------------------------------------
\* Bounds of the model
\* ------------------------------------------------------------------------
\* events of the server's environment over its lifetime: messages sent by a
\* client, a client closing its end, the shutdown signal
MaxReq == 4
MaxQueue == 1      \* messages in flight on the connection (socket buffer)
MaxConn == 2       \* connections made to the listen socket over the lifetime
MaxMockOps == 4    \* operations applied to a mock device
MaxHierOps == 4    \* calls made on a memory hierarchy driven on its own
MaxEmuOps == 4     \* calls made on the IPC client
EmuShmSize == 320  \* bytes of the client's shared-memory region
MaxDispOps == 3    \* operations on a backend (graph computations, host writes)
MaxAcceptEvents == 8   \* events logged at the accept loop with two clients
SizeBits == 16    \* width of size_t in the allocator (64 in the build)
SizeMod == 2 ^ SizeBits
MaxShmOps == 4    \* calls on one shared region
ShmRegionSizes == {96, 200}
ShmAllocSizes == {0, 1, 8, 64, 100, SizeMod - 1, SizeMod - 64}
ShmAlignments == {0, 1, 3, 8, 64}
\* SKU names given to --sku or to the config key sku
SkuNames == { <<"N", "P", "M", "4", "K">>, <<"N", "P", "M", "8", "K">>,
              <<"N", "P", "M", "1", "6", "K">>, <<"N", "P", "M", "3", "2", "K">>,
              <<"N", "P", "M", "6", "4", "K">> }
DefaultSocket == "/tmp/npm-emulator.sock"
\* npm_trace_category: NPM_TRACE_ALL is 0xFFFFFFFF, every bit
TraceBit == [C |-> "commands", D |-> "dma", O |-> "ops"]
TraceAll == {"commands", "dma", "ops", "other"}

\* ------------------------------------------------------------------------
\* Protocol constants (npm-emu-protocol.h)
\* ------------------------------------------------------------------------
NPM_EMU_MAGIC == 1162694734
NPM_EMU_VERSION_MAJOR == 1

NPM_EMU_CMD_HELLO == 0
NPM_EMU_CMD_GOODBYE == 1
NPM_EMU_CMD_PING == 2
NPM_EMU_CMD_GET_CONFIG == 16
NPM_EMU_CMD_REGISTER_BUFFER == 32
NPM_EMU_CMD_UNREGISTER_BUFFER == 33
NPM_EMU_CMD_MATMUL == 48
NPM_EMU_CMD_SYNC == 64
NPM_EMU_CMD_FENCE_CREATE == 65
NPM_EMU_CMD_FENCE_DESTROY == 66
NPM_EMU_CMD_FENCE_WAIT == 67

NPM_EMU_STATUS_OK == 0
NPM_EMU_STATUS_ERROR == 1
NPM_EMU_STATUS_INVALID_HANDLE == 3

\* the case labels of the dispatch switch in npm_emu_server_run
HandledCmds ==
    { NPM_EMU_CMD_HELLO, NPM_EMU_CMD_GOODBYE, NPM_EMU_CMD_PING,
      NPM_EMU_CMD_REGISTER_BUFFER, NPM_EMU_CMD_UNREGISTER_BUFFER,
      NPM_EMU_CMD_MATMUL, NPM_EMU_CMD_SYNC, NPM_EMU_CMD_FENCE_CREATE,
      NPM_EMU_CMD_FENCE_DESTROY, NPM_EMU_CMD_FENCE_WAIT }

\* commands whose handler reads a request body with recv_all
PayloadCmds ==
    { NPM_EMU_CMD_HELLO, NPM_EMU_CMD_PING, NPM_EMU_CMD_REGISTER_BUFFER,
      NPM_EMU_CMD_UNREGISTER_BUFFER, NPM_EMU_CMD_MATMUL,
      NPM_EMU_CMD_FENCE_DESTROY, NPM_EMU_CMD_FENCE_WAIT }

npm_emu_header_validate(hdr) ==
    IF hdr.magic # NPM_EMU_MAGIC THEN -1
    ELSE IF hdr.version_major # NPM_EMU_VERSION_MAJOR THEN -2
    ELSE 0

\* ------------------------------------------------------------------------
\* SKU table (npm-types.h)
\* ------------------------------------------------------------------------
NPM_SKU_8K == 1
NPM_SKU_64K == 4
MiB == 1048576

NPM_SKU_CONFIGS ==
    { [sku |-> 0, num_engines |-> 1, l1_size |-> MiB, l2_size_default |-> 8 * MiB, fp16_macs |-> 2000],
      [sku |-> 1, num_engines |-> 1, l1_size |-> MiB, l2_size_default |-> 8 * MiB, fp16_macs |-> 4000],
      [sku |-> 2, num_engines |-> 2, l1_size |-> MiB, l2_size_default |-> 8 * MiB, fp16_macs |-> 8000],
      [sku |-> 3, num_engines |-> 4, l1_size |-> MiB, l2_size_default |-> 8 * MiB, fp16_macs |-> 16000],
      [sku |-> 4, num_engines |-> 8, l1_size |-> MiB, l2_size_default |-> 8 * MiB, fp16_macs |-> 32000],
      [sku |-> 5, num_engines |-> 1, l1_size |-> MiB, l2_size_default |-> 8 * MiB, fp16_macs |-> 0],
      [sku |-> 6, num_engines |-> 1, l1_size |-> MiB, l2_size_default |-> 8 * MiB, fp16_macs |-> 0] }

npm_get_sku_config(sku) == CHOOSE c \in NPM_SKU_CONFIGS : c.sku = sku

\* ------------------------------------------------------------------------
\* Inputs of the model
\* ------------------------------------------------------------------------
SizeofFloat == 4

\* address at which mmap places the client's region; nullptr is 0
MapAddr == 1048576
\* size of the client's shared-memory region as announced in HELLO
ShmSize == 262144

\* server configurations the model starts from (sku, tiling, timing)
Configs ==
    { [sku |-> NPM_SKU_8K, l2_size |-> 0, tiling_enabled |-> FALSE, timing_enabled |-> FALSE],
      [sku |-> NPM_SKU_8K, l2_size |-> 0, tiling_enabled |-> TRUE, timing_enabled |-> FALSE],
      [sku |-> NPM_SKU_8K, l2_size |-> 0, tiling_enabled |-> TRUE, timing_enabled |-> TRUE] }

\* REGISTER_BUFFER bodies: one float at the start of the region, or a
\* 128x128 float matrix further in
RegBodies == { [shm_offset |-> 0, size |-> 4], [shm_offset |-> 65536, size |-> 65536] }
\* handles an UNREGISTER_BUFFER or a MATMUL operand may name
ReqHandles == 0..2
\* (handle, offset) of a MATMUL operand; a request uses BaseOperand for all
\* three operands, or for all but one
BaseOperand == <<1, 0>>
Operands == { <<0, 0>>, <<1, 0>>, <<1, 4>>, <<2, 0>> }
OperandTriples ==
    { <<a, BaseOperand, BaseOperand>> : a \in Operands } \cup
    { <<BaseOperand, b, BaseOperand>> : b \in Operands } \cup
    { <<BaseOperand, BaseOperand, c>> : c \in Operands }
\* (M, N, K) of a MATMUL request; lda = K, ldb = K, ldc = N as the dispatcher sets them
\* the larger one goes with the request whose three operands are BaseOperand
SmallDims == <<1, 1, 1>>
DimTriples == { SmallDims, <<128, 128, 128>> }

Max(a, b) == IF a >= b THEN a ELSE b
\* the first argument whatever the second
Min_first(a, b) == a

Min(a, b) == IF a <= b THEN a ELSE b

\* ------------------------------------------------------------------------
\* Memory-hierarchy model (npm_memory_hierarchy)
\* ------------------------------------------------------------------------
\* a tier is [capacity, used, blocks]; blocks is the std::list in push_back order
NewTier(cap) == [capacity |-> cap, used |-> 0, blocks |-> <<>>]

npm_memory_hierarchy(num_engines, l1_size_per_engine, l2_size) ==
    [ num_engines |-> num_engines,
      l1_models |-> [e \in 0..(num_engines - 1) |-> NewTier(l1_size_per_engine)],
      l2_model |-> NewTier(l2_size),
      access_counter |-> 0,
      l1_hits |-> 0, l2_hits |-> 0, l1_misses |-> 0, l2_misses |-> 0,
      total_bytes_moved |-> 0 ]

can_fit(tier, size) == tier.used + size <= tier.capacity

\* first index whose block has this (handle, offset), 0 when there is none
FirstMatch(blocks, handle, offset) ==
    LET hits == { i \in 1..Len(blocks) :
                    blocks[i].handle = handle /\ blocks[i].offset = offset }
    IN IF hits = {} THEN 0 ELSE CHOOSE i \in hits : \A j \in hits : i <= j

find_block_in_l1(mh, engine_id, handle, offset) ==
    IF engine_id < 0 \/ engine_id >= mh.num_engines THEN 0
    ELSE FirstMatch(mh.l1_models[engine_id].blocks, handle, offset)

\* a lookup in L2 that never finds the block
find_block_in_l2_none(mh, handle, offset) == 0

find_block_in_l2(mh, handle, offset) == FirstMatch(mh.l2_model.blocks, handle, offset)

\* eviction of the front of the list (the oldest insertion) instead
MinElement_front(blocks) == 1

\* std::min_element on last_access: the first block carrying the minimum
MinElement(blocks) ==
    CHOOSE i \in 1..Len(blocks) :
        /\ \A j \in 1..Len(blocks) : blocks[i].last_access <= blocks[j].last_access
        /\ \A j \in 1..(i - 1) : blocks[j].last_access > blocks[i].last_access

RemoveAt(seq, i) == SubSeq(seq, 1, i - 1) \o SubSeq(seq, i + 1, Len(seq))

RECURSIVE evict_lru_l1(_, _, _)
evict_lru_l1(mh, engine_id, needed_size) ==
    IF engine_id < 0 \/ engine_id >= mh.num_engines THEN mh
    ELSE LET l1 == mh.l1_models[engine_id]
         IN IF l1.blocks # <<>> /\ ~can_fit(l1, needed_size)
            THEN LET lru_it == MinElement(l1.blocks)
                 IN evict_lru_l1(
                        [mh EXCEPT !.l1_models[engine_id].used = l1.used - l1.blocks[lru_it].size,
                                   !.l1_models[engine_id].blocks = RemoveAt(l1.blocks, lru_it)],
                        engine_id, needed_size)
            ELSE mh

RECURSIVE evict_lru_l2(_, _)
evict_lru_l2(mh, needed_size) ==
    LET l2 == mh.l2_model
    IN IF l2.blocks # <<>> /\ ~can_fit(l2, needed_size)
       THEN LET lru_it == MinElement(l2.blocks)
            IN evict_lru_l2(
                   [mh EXCEPT !.l2_model.used = l2.used - l2.blocks[lru_it].size,
                              !.l2_model.blocks = RemoveAt(l2.blocks, lru_it)],
                   needed_size)
       ELSE mh

\* bump allocators: the offset handed out is the tier's used counter
allocate_l1(mh, engine_id, size) ==
    [mh EXCEPT !.l1_models[engine_id].used = mh.l1_models[engine_id].used + size]

allocate_l2(mh, size) == [mh EXCEPT !.l2_model.used = mh.l2_model.used + size]

NewBlock(handle, offset, size, local_offset, last_access) ==
    [handle |-> handle, offset |-> offset, size |-> size,
     local_offset |-> local_offset, last_access |-> last_access, dirty |-> FALSE]

\* stage_to_l2 whose hit path stamps the counter without advancing it
stage_to_l2_stale_stamp(mh, handle, offset, size) ==
    LET existing == find_block_in_l2(mh, handle, offset)
    IN IF existing # 0
       THEN [mh EXCEPT !.l2_hits = mh.l2_hits + 1,
                       !.l2_model.blocks[existing].last_access = mh.access_counter]
       ELSE LET ev == IF ~can_fit(mh.l2_model, size) THEN evict_lru_l2(mh, size) ELSE mh
                local_offset == ev.l2_model.used
                al == allocate_l2(ev, size)
            IN [al EXCEPT !.l2_misses = mh.l2_misses + 1,
                          !.total_bytes_moved = mh.total_bytes_moved + size,
                          !.access_counter = mh.access_counter + 1,
                          !.l2_model.blocks =
                              Append(al.l2_model.blocks,
                                     NewBlock(handle, offset, size, local_offset,
                                              mh.access_counter + 1))]

stage_to_l2(mh, handle, offset, size) ==
    LET existing == find_block_in_l2(mh, handle, offset)
    IN IF existing # 0
       THEN [mh EXCEPT !.l2_hits = mh.l2_hits + 1,
                       !.access_counter = mh.access_counter + 1,
                       !.l2_model.blocks[existing].last_access = mh.access_counter + 1]
       ELSE LET ev == IF ~can_fit(mh.l2_model, size) THEN evict_lru_l2(mh, size) ELSE mh
                local_offset == ev.l2_model.used
                al == allocate_l2(ev, size)
            IN [al EXCEPT !.l2_misses = mh.l2_misses + 1,
                          !.total_bytes_moved = mh.total_bytes_moved + size,
                          !.access_counter = mh.access_counter + 1,
                          !.l2_model.blocks =
                              Append(al.l2_model.blocks,
                                     NewBlock(handle, offset, size, local_offset,
                                              mh.access_counter + 1))]

stage_to_l1(mh, engine_id, handle, offset, size) ==
    IF engine_id < 0 \/ engine_id >= mh.num_engines THEN mh
    ELSE LET existing == find_block_in_l1(mh, engine_id, handle, offset)
         IN IF existing # 0
            THEN [mh EXCEPT !.l1_hits = mh.l1_hits + 1,
                            !.access_counter = mh.access_counter + 1,
                            !.l1_models[engine_id].blocks[existing].last_access =
                                mh.access_counter + 1]
            ELSE IF find_block_in_l2(mh, handle, offset) = 0
            THEN [mh EXCEPT !.l1_misses = mh.l1_misses + 1]
            ELSE LET ev == IF ~can_fit(mh.l1_models[engine_id], size)
                           THEN evict_lru_l1(mh, engine_id, size) ELSE mh
                     local_offset == ev.l1_models[engine_id].used
                     al == allocate_l1(ev, engine_id, size)
                 IN [al EXCEPT !.l1_misses = mh.l1_misses + 1,
                               !.total_bytes_moved = mh.total_bytes_moved + size,
                               !.access_counter = mh.access_counter + 1,
                               !.l1_models[engine_id].blocks =
                                   Append(al.l1_models[engine_id].blocks,
                                          NewBlock(handle, offset, size, local_offset,
                                                   mh.access_counter + 1))]

reset(mh) ==
    [mh EXCEPT !.l1_models = [e \in DOMAIN mh.l1_models |->
                                 [mh.l1_models[e] EXCEPT !.blocks = <<>>, !.used = 0]],
               !.l2_model.blocks = <<>>, !.l2_model.used = 0,
               !.access_counter = 0,
               !.l1_hits = 0, !.l2_hits = 0, !.l1_misses = 0, !.l2_misses = 0,
               !.total_bytes_moved = 0]

\* ------------------------------------------------------------------------
\* DMA model (npm_dma_model)
\* ------------------------------------------------------------------------
NPM_DMA_DDR_TO_L2 == 0
NPM_DMA_L2_TO_DDR == 1
NPM_DMA_L2_TO_L1 == 2
NPM_DMA_L1_TO_L2 == 3

\* npm_dma_config(): 50 GB/s system DMA, 100 GB/s L1 DMA, 1000 MHz
npm_dma_config == [system_dma_bw_gbps |-> 50, l1_dma_bw_gbps |-> 100, clock_freq_mhz |-> 1000]

npm_dma_model(config) ==
    [config |-> config, current_cycle |-> 0, total_bytes |-> 0,
     total_transfer_cycles |-> 0, ddr_l2_bytes |-> 0, l2_l1_bytes |-> 0]

CeilDiv(a, b) == (a + b - 1) \div b

\* cycles = ceil(bytes / (bandwidth * 125 / clock)), at least 1
calculate_cycles(dma, type, bytes) ==
    LET bw == IF type \in {NPM_DMA_L2_TO_L1, NPM_DMA_L1_TO_L2}
              THEN dma.config.l1_dma_bw_gbps ELSE dma.config.system_dma_bw_gbps
        cycles == CeilDiv(bytes * dma.config.clock_freq_mhz, bw * 125)
    IN IF cycles > 0 THEN cycles ELSE 1

transfer(dma, type, bytes) ==
    LET cycles == calculate_cycles(dma, type, bytes)
        sys == type \in {NPM_DMA_DDR_TO_L2, NPM_DMA_L2_TO_DDR}
    IN [dma EXCEPT !.current_cycle = dma.current_cycle + cycles,
                   !.total_bytes = dma.total_bytes + bytes,
                   !.total_transfer_cycles = dma.total_transfer_cycles + cycles,
                   !.ddr_l2_bytes = IF sys THEN dma.ddr_l2_bytes + bytes ELSE dma.ddr_l2_bytes,
                   !.l2_l1_bytes = IF sys THEN dma.l2_l1_bytes ELSE dma.l2_l1_bytes + bytes]

advance_cycles(dma, cycles) == [dma EXCEPT !.current_cycle = dma.current_cycle + cycles]

reset_stats(dma) ==
    [dma EXCEPT !.current_cycle = 0, !.total_bytes = 0, !.total_transfer_cycles = 0,
                !.ddr_l2_bytes = 0, !.l2_l1_bytes = 0]


\* ------------------------------------------------------------------------
\* Emulator server: handle resolution and matmul execution
\* ------------------------------------------------------------------------
\* (int)sqrt((double)x) for 0 <= x < 2^30, found bit by bit from SqrtTopBit down
SqrtTopBit == 16384
RECURSIVE ISqrtFrom(_, _, _)
ISqrtFrom(x, r, bit) ==
    IF bit = 0 THEN r
    ELSE IF (r + bit) * (r + bit) <= x THEN ISqrtFrom(x, r + bit, bit \div 2)
    ELSE ISqrtFrom(x, r, bit \div 2)
ISqrt(x) == ISqrtFrom(x, 0, SqrtTopBit)

RECURSIVE PowerOfTwoBelow(_, _)
PowerOfTwoBelow(pot, tile_size) ==
    IF pot * 2 <= tile_size THEN PowerOfTwoBelow(pot * 2, tile_size) ELSE pot

calculate_tile_size(l1_size) ==
    LET elements == l1_size \div SizeofFloat
        tile_elements == elements \div 3
        tile_size == Max(32, ISqrt(tile_elements))
    IN PowerOfTwoBelow(1, tile_size)

\* resolve_handle with the offset test off by one: offset = size is let through
resolve_handle_offset_gt(buffers, shm_base, handle, offset) ==
    IF handle \notin DOMAIN buffers THEN 0
    ELSE IF offset > buffers[handle].size THEN 0
    ELSE shm_base + buffers[handle].shm_offset + offset

\* resolve_handle without the offset test
resolve_handle_no_offset_test(buffers, shm_base, handle, offset) ==
    IF handle \notin DOMAIN buffers THEN 0
    ELSE shm_base + buffers[handle].shm_offset + offset

\* the address of byte `offset` of the buffer, 0 (nullptr) when missing
resolve_handle(buffers, shm_base, handle, offset) ==
    IF handle \notin DOMAIN buffers THEN 0
    ELSE IF offset >= buffers[handle].size THEN 0
    ELSE shm_base + buffers[handle].shm_offset + offset

\* statement sequencing: F applied to the value of x
Then(x, F(_)) == CHOOSE r \in { F(v) : v \in {x} } : TRUE

\* staging with the DDR -> L2 transfer made whether or not the tile was in L2
StageTile_always_ddr(st, handle, tile_byte_offset, tile_bytes) ==
    Then(stage_to_l2(st.mh, handle, tile_byte_offset, tile_bytes), LAMBDA in_l2 :
    Then(in_l2.l2_misses > st.mh.l2_misses, LAMBDA l2_miss :
    Then(transfer(st.dma, NPM_DMA_DDR_TO_L2, tile_bytes), LAMBDA dma_l2 :
             [mh |-> stage_to_l1(in_l2, 0, handle, tile_byte_offset, tile_bytes),
              dma |-> transfer(dma_l2, NPM_DMA_L2_TO_L1, tile_bytes),
              l2_miss |-> l2_miss,
              log |-> st.log
                      \o << [handle |-> handle, offset |-> tile_byte_offset,
                              ev |-> "stage_to_l2", bytes |-> tile_bytes,
                              absent |-> \A i \in 1..Len(st.mh.l2_model.blocks) :
                                            \/ st.mh.l2_model.blocks[i].handle # handle
                                            \/ st.mh.l2_model.blocks[i].offset
                                                   # tile_byte_offset],
                             [ev |-> "dma", type |-> NPM_DMA_DDR_TO_L2, bytes |-> tile_bytes],
                             [ev |-> "dma", type |-> NPM_DMA_L2_TO_L1,
                              bytes |-> tile_bytes] >>])))

\* staging of one input tile: stage_to_l2 with a DDR -> L2 transfer on a miss,
\* then stage_to_l1 with the L2 -> L1 transfer; st carries the two models and
\* the log of what the run did.  A "stage_to_l2" entry says whether the tile
\* was absent from L2 when the call was made, a "dma" entry is one transfer().
StageTile(st, handle, tile_byte_offset, tile_bytes) ==
    Then(stage_to_l2(st.mh, handle, tile_byte_offset, tile_bytes), LAMBDA in_l2 :
    Then(in_l2.l2_misses > st.mh.l2_misses, LAMBDA l2_miss :
    Then(IF l2_miss THEN transfer(st.dma, NPM_DMA_DDR_TO_L2, tile_bytes) ELSE st.dma,
         LAMBDA dma_l2 :
             [mh |-> stage_to_l1(in_l2, 0, handle, tile_byte_offset, tile_bytes),
              dma |-> transfer(dma_l2, NPM_DMA_L2_TO_L1, tile_bytes),
              l2_miss |-> l2_miss,
              log |-> st.log
                      \o << [handle |-> handle, offset |-> tile_byte_offset,
                              ev |-> "stage_to_l2", bytes |-> tile_bytes,
                              absent |-> \A i \in 1..Len(st.mh.l2_model.blocks) :
                                            \/ st.mh.l2_model.blocks[i].handle # handle
                                            \/ st.mh.l2_model.blocks[i].offset
                                                   # tile_byte_offset] >>
                      \o (IF l2_miss
                          THEN << [ev |-> "dma", type |-> NPM_DMA_DDR_TO_L2,
                                   bytes |-> tile_bytes] >>
                          ELSE << >>)
                      \o << [ev |-> "dma", type |-> NPM_DMA_L2_TO_L1,
                              bytes |-> tile_bytes] >>])))

\* one (m_tile, n_tile, k_tile) step of the tiled loop nest; st carries the two
\* models and, per operand, the end (in floats past the operand pointer) of what
\* has been touched so far
TileStep(st, req, T, macs, timing, m_tile, n_tile, k_tile) ==
    LET actual_m == Min(T, req.M - m_tile)
        actual_n == Min(T, req.N - n_tile)
        actual_k == Min(T, req.K - k_tile)
        a_tile_byte_offset == (m_tile * req.lda + k_tile) * SizeofFloat
        a_tile_bytes == actual_m * actual_k * SizeofFloat
        b_tile_byte_offset == (n_tile * req.ldb + k_tile) * SizeofFloat
        b_tile_bytes == actual_n * actual_k * SizeofFloat
        ops == 2 * actual_m * actual_n * actual_k
        compute_cycles == (ops + macs - 1) \div macs
        \* floats read: the memcpy of stage_to_l2 on a miss, and the inner product loops
        a_copy == m_tile * req.lda + k_tile + actual_m * actual_k
        b_copy == n_tile * req.ldb + k_tile + actual_n * actual_k
        a_loop == (m_tile + actual_m - 1) * req.lda + k_tile + actual_k
        b_loop == (n_tile + actual_n - 1) * req.ldb + k_tile + actual_k
    IN Then(StageTile(st, req.a_handle, a_tile_byte_offset, a_tile_bytes), LAMBDA a :
       Then(StageTile(a, req.b_handle, b_tile_byte_offset, b_tile_bytes), LAMBDA b :
           [mh |-> b.mh,
            dma |-> IF timing THEN advance_cycles(b.dma, compute_cycles) ELSE b.dma,
            \* C[(m_tile + m) * ldc + n_tile + n] += the sum over k < actual_k of
            \* A[(m_tile + m) * lda + k_tile + k] * B[(n_tile + n) * ldb + k_tile + k]
            log |-> Append(b.log, [ev |-> "acc", m0 |-> m_tile, mc |-> actual_m,
                                   n0 |-> n_tile, nc |-> actual_n,
                                   k0 |-> k_tile, kc |-> actual_k]),
            a_end |-> Max(st.a_end, Max(IF a.l2_miss THEN a_copy ELSE 0, a_loop)),
            b_end |-> Max(st.b_end, Max(IF b.l2_miss THEN b_copy ELSE 0, b_loop)),
            c_end |-> st.c_end]))

RECURSIVE KLoop(_, _, _, _, _, _, _, _)
KLoop(st, req, T, macs, timing, m_tile, n_tile, k_tile) ==
    IF k_tile < req.K
    THEN Then(TileStep(st, req, T, macs, timing, m_tile, n_tile, k_tile), LAMBDA next :
              KLoop(next, req, T, macs, timing, m_tile, n_tile, k_tile + T))
    ELSE st

\* zero the C sub-tile, accumulate over the K tiles, then write the sub-tile back
OutputTile(st, req, T, macs, timing, m_tile, n_tile) ==
    LET actual_m == Min(T, req.M - m_tile)
        actual_n == Min(T, req.N - n_tile)
        c_loop == (m_tile + actual_m - 1) * req.ldc + n_tile + actual_n
        c_tile_bytes == actual_m * actual_n * SizeofFloat
    IN Then([st EXCEPT !.c_end = Max(st.c_end, c_loop),
                       !.log = Append(st.log, [ev |-> "zero", m0 |-> m_tile,
                                               mc |-> actual_m, n0 |-> n_tile,
                                               nc |-> actual_n])], LAMBDA zeroed :
       Then(KLoop(zeroed, req, T, macs, timing, m_tile, n_tile, 0), LAMBDA done :
       Then(transfer(done.dma, NPM_DMA_L1_TO_L2, c_tile_bytes), LAMBDA in_l2 :
           [done EXCEPT !.dma = transfer(in_l2, NPM_DMA_L2_TO_DDR, c_tile_bytes),
                        !.log = done.log
                                \o << [ev |-> "dma", type |-> NPM_DMA_L1_TO_L2,
                                        bytes |-> c_tile_bytes],
                                       [ev |-> "dma", type |-> NPM_DMA_L2_TO_DDR,
                                        bytes |-> c_tile_bytes] >>])))

RECURSIVE NLoop(_, _, _, _, _, _, _)
NLoop(st, req, T, macs, timing, m_tile, n_tile) ==
    IF n_tile < req.N
    THEN Then(OutputTile(st, req, T, macs, timing, m_tile, n_tile), LAMBDA next :
              NLoop(next, req, T, macs, timing, m_tile, n_tile + T))
    ELSE st

RECURSIVE MLoop(_, _, _, _, _, _)
MLoop(st, req, T, macs, timing, m_tile) ==
    IF m_tile < req.M
    THEN Then(NLoop(st, req, T, macs, timing, m_tile, 0), LAMBDA next :
              MLoop(next, req, T, macs, timing, m_tile + T))
    ELSE st

\* the tiled branch of handle_matmul, from reset_stats()/reset() to the last writeback
TiledMatmul(mh, dma, config, l1_size, req) ==
    LET sku_cfg == npm_get_sku_config(config.sku)
        fp32_macs_per_cycle == sku_cfg.fp16_macs \div 2
    IN Then([mh |-> reset(mh), dma |-> reset_stats(dma),
             a_end |-> 0, b_end |-> 0, c_end |-> 0, log |-> << >>], LAMBDA start :
       Then(calculate_tile_size(l1_size), LAMBDA tile_size :
            MLoop(start, req, tile_size, fp32_macs_per_cycle, config.timing_enabled, 0)))

\* the simple branch: the naive triple loop
SimpleMatmul(mh, dma, req) ==
    LET inner == req.M > 0 /\ req.N > 0 /\ req.K > 0
        outer == req.M > 0 /\ req.N > 0
    IN [mh |-> mh, dma |-> dma,
        a_end |-> IF inner THEN (req.M - 1) * req.lda + req.K ELSE 0,
        b_end |-> IF inner THEN (req.N - 1) * req.ldb + req.K ELSE 0,
        c_end |-> IF outer THEN (req.M - 1) * req.ldc + req.N ELSE 0,
        \* C[m * ldc + n] = the sum over k < K of A[m * lda + k] * B[n * ldb + k]
        log |-> IF outer
                THEN << [ev |-> "assign", m0 |-> 0, mc |-> req.M, n0 |-> 0, nc |-> req.N,
                         k0 |-> 0, kc |-> Max(req.K, 0)] >>
                ELSE << >>]

\* the byte interval [lo, hi) touched through pointer p; <<0, 0>> when untouched
Touched(p, end) == IF end = 0 THEN <<0, 0>> ELSE <<p, p + end * SizeofFloat>>
NoAccess == [a |-> <<0, 0>>, b |-> <<0, 0>>, c |-> <<0, 0>>]


\* ------------------------------------------------------------------------
\* State
\* ------------------------------------------------------------------------
VARIABLES
    \* npm_emu_server
    config, num_engines, l1_size, l2_size,
    listen_fd, client_fd, shm_base, shm_size,
    buffers, next_handle, next_fence_id, total_matmul_ops,
    mem_hierarchy, dma_model,
    \* the server process: position in npm_emu_server_run, the shutdown flag,
    \* whether the flag was raised while the process sat in accept/recv, and the
    \* base addresses of the mappings the process holds
    pc, g_shutdown_requested, in_syscall, mappings,
    \* the connection: client side of the socket, bytes in flight to the server,
    \* whether the client has closed its end, the client's seq_id counter
    conn, inq, peer_closed, seq_id,
    \* observation of the run: seq_ids of the requests the server received in
    \* full on this connection, seq_ids of the responses it sent, the response
    \* sent by the latest step, the handles REGISTER_BUFFER has returned, what
    \* the latest request touched in memory, the latest executed matmul, and
    \* the dma_bytes of the run before it when that was the same request
    handled, sent, last_rsp, issued, mem_access, last_matmul, first_dma_bytes,
    nreq, nconn,
    \* the mock device
    mock_buffers, mock_next_handle, mock_call, mock_rc, mock_access, mock_crashed, mock_ops,
    \* a memory hierarchy driven on its own: the instance, the latest call and
    \* what it returned, per tier the keys in the order they were touched, the
    \* largest stamp seen (since construction, since the last reset), per key
    \* the L2 slot returned by the call that inserted it, and the call count
    hier, hier_op, hier_touch, hier_max, hier_slot, hier_ops,
    \* the matmul loops run on their own: the latest run (which implementation,
    \* the request, the log of what it did)
    tile_run,
    \* the IPC client with the emulator at the far end of its socket: the
    \* client context, the host memory and the server's registry; and the
    \* latest call on the device
    emu_ctx, emu_call,
    \* the dispatcher (ggml-npm.cpp) on an IPC client device: the backend
    \* context, and in field call the latest operation on the backend
    npm_backend,
    \* further components driven on their own, one field each
    solo

server_vars == << config, num_engines, l1_size, l2_size, listen_fd, client_fd, shm_base,
                  shm_size, buffers, next_handle, next_fence_id, total_matmul_ops,
                  mem_hierarchy, dma_model, pc, g_shutdown_requested, in_syscall, mappings >>
conn_vars == << conn, inq, peer_closed, seq_id >>
obs_vars == << handled, sent, last_rsp, issued, mem_access, last_matmul, first_dma_bytes,
               nreq, nconn >>
mock_vars == << mock_buffers, mock_next_handle, mock_call, mock_rc, mock_access,
               mock_crashed, mock_ops >>
hier_vars == << hier, hier_op, hier_touch, hier_max, hier_slot, hier_ops >>
\* the variables of the components that are driven on their own
emu_vars == << emu_ctx, emu_call >>
unit_vars == << hier_vars, tile_run, emu_vars, npm_backend, solo >>
vars == << server_vars, conn_vars, obs_vars, mock_vars, unit_vars >>

ListenFd == 3
ClientFd == 4
EmptyMap == [h \in {} |-> 0]
NoRsp == [cmd |-> -1, seq_id |-> -1, status |-> -1, handle |-> 0, cycles |-> 0, dma_bytes |-> 0]
NoReq == [a_handle |-> 0, a_offset |-> 0, b_handle |-> 0, b_offset |-> 0,
          c_handle |-> 0, c_offset |-> 0, M |-> 0, N |-> 0, K |-> 0,
          lda |-> 0, ldb |-> 0, ldc |-> 0]
\* status -1: the latest request was not a MATMUL
NoMatmul == [status |-> -1, req |-> NoReq, dma_bytes |-> 0, cycles |-> 0]
NoCall == [op |-> "none"]

\* npm-trace.cpp: the status field of a command event; 255 (0xFF) marks the
\* event written when the request arrives
status_to_string(status) ==
    IF status = 255 THEN "REQ"
    ELSE CASE status = 0 -> "OK"
           [] status = 1 -> "ERR_INVALID_CMD"
           [] status = 2 -> "ERR_INVALID_HANDLE"
           [] status = 3 -> "ERR_OUT_OF_MEMORY"
           [] status = 4 -> "ERR_TIMEOUT"
           [] status = 5 -> "ERR_INVALID_SIZE"
           [] OTHER -> "ERR_UNKNOWN"

\* a response: the header npm_emu_header_init fills in, and the body's fields
npm_emu_header_init(cmd, seq, status) ==
    [cmd |-> cmd, seq_id |-> seq, status |-> status, handle |-> 0, cycles |-> 0, dma_bytes |-> 0]

\* npm_emu_server_create followed by the start of npm_emu_server_run
npm_emu_server_create(cfg) ==
    LET sku_config == npm_get_sku_config(cfg.sku)
        l2 == IF cfg.l2_size > 0 THEN cfg.l2_size ELSE sku_config.l2_size_default
    IN /\ config = cfg
       /\ num_engines = sku_config.num_engines
       /\ l1_size = sku_config.l1_size
       /\ l2_size = l2
       /\ listen_fd = ListenFd
       /\ client_fd = -1
       /\ shm_base = 0
       /\ shm_size = 0
       /\ buffers = EmptyMap
       /\ next_handle = 1
       /\ next_fence_id = 1
       /\ total_matmul_ops = 0
       /\ mem_hierarchy = npm_memory_hierarchy(sku_config.num_engines, sku_config.l1_size, l2)
       /\ dma_model = npm_dma_model(npm_dma_config)

\* npm_device_mock_init
npm_device_mock_init ==
    /\ mock_buffers = EmptyMap
    /\ mock_next_handle = 1

\* a hierarchy of one engine with room for two small tiles per tier
HierL1Size == 8
HierL2Size == 8
HierKeys == { <<1, 0>>, <<1, 4>>, <<2, 0>> }
HierSizes == { 4, 8, 12 }
\* ret -1: nullptr, or a call returning nothing; stamp 0: no block was stamped
NoHierOp == [op |-> "none", engine_id |-> -1, key |-> <<0, 0>>, size |-> 0, ret |-> -1,
             stamp |-> 0, live |-> FALSE, d_hits |-> 0, d_misses |-> 0, d_bytes |-> 0,
             max_ever |-> 0, max_epoch |-> 0]

HierInit ==
    /\ hier = npm_memory_hierarchy(1, HierL1Size, HierL2Size)
    /\ hier_op = NoHierOp
    /\ hier_touch = [l1 |-> <<>>, l2 |-> <<>>]
    /\ hier_max = [ever |-> 0, epoch |-> 0]
    /\ hier_slot = [k \in HierKeys |-> -1]
    /\ hier_ops = 0

\* the IPC client after npm_device_emulator_create and npm_device_emu_init:
\* connected, HELLO (seq_id 0) exchanged, nothing registered.  host gives the
\* contents of the host buffers and shm the contents of the region at the
\* offsets handed out, both as the number of the request that produced the
\* bytes (0: the data the host started with).  srv_buffers and srv_next_handle
\* are the registry of the server at the far end; host_of remembers, for every
\* handle, the host pointer it was registered with
npm_device_emu_init ==
    /\ emu_ctx = [buffers |-> << >>, allocated |-> 0, seq_id |-> 1, connected |-> TRUE,
                  host |-> [p \in 1..4 |-> 0], shm |-> << >>,
                  srv_buffers |-> << >>, srv_next_handle |-> 1,
                  host_of |-> << >>, ops |-> 0, rxq |-> << >>]
    /\ emu_call = [op |-> "none", rc |-> 0]

\* the backend context as ggml_backend_npm_init_with_type leaves it.  rev is
\* the revision of the dispatcher in use (ggml-npm.cpp holds several; 0 until
\* the first graph is computed); buffer_handles maps a host pointer to the
\* handle and the size it was registered with (the size is kept by revision 2
\* only)
ggml_backend_npm_init ==
    npm_backend = [rev |-> 0, buffer_handles |-> << >>, dequant_handle |-> 0,
                   dequant_handle_size |-> 0, ops |-> 0, call |-> [op |-> "none"]]

Init ==
    /\ \E cfg \in Configs : npm_emu_server_create(cfg)
    /\ pc = "accept"
    /\ g_shutdown_requested = FALSE
    /\ in_syscall = FALSE
    /\ mappings = {}
    /\ conn = "closed"
    /\ inq = <<>>
    /\ peer_closed = FALSE
    /\ seq_id = 0
    /\ handled = <<>>
    /\ sent = <<>>
    /\ last_rsp = NoRsp
    /\ issued = <<>>
    /\ mem_access = NoAccess
    /\ last_matmul = NoMatmul
    /\ first_dma_bytes = -1
    /\ nreq = 0
    /\ nconn = 0
    /\ npm_device_mock_init
    /\ mock_call = NoCall
    /\ mock_rc = 0
    /\ mock_access = NoAccess
    /\ mock_crashed = FALSE
    /\ mock_ops = 0
    /\ HierInit
    /\ tile_run = [mode |-> "none", req |-> NoReq, log |-> << >>]
    /\ npm_device_emu_init
    /\ ggml_backend_npm_init
    /\ solo = [accept_loop |->
                   [pc |-> "accept", client_fd |-> 0, backlog |-> << >>, log |-> << >>,
                    cl |-> [c \in 1..2 |-> [st |-> "idle", q |-> << >>, gone |-> FALSE]]],
                shm |-> [size |-> 0, allocated |-> 0, ops |-> 0,
                         last |-> [op |-> "none", size |-> 0, alignment |-> 0, w |-> 0,
                                   offset |-> 0]],
                life |-> [phase |-> "none", server |-> "none", trace_file |-> "none",
                          trace_ctx |-> "none", owns_file |-> FALSE, listen_fd |-> "none",
                          socket_path |-> "absent", client_fd |-> "none", shm |-> "none",
                          in |-> [trace_file |-> FALSE, fopen_ok |-> FALSE,
                                  calloc_ok |-> FALSE, sku_ok |-> FALSE,
                                  socket_ok |-> FALSE, bind_ok |-> FALSE,
                                  listen_ok |-> FALSE]],
                main |-> [phase |-> "none",
                          cli |-> [socket |-> "", sku |-> << >>, l2_mb |-> 0, trace |-> {}],
                          file |-> [given |-> FALSE, loaded |-> FALSE, socket |-> "",
                                    sku |-> << >>, trace_commands |-> FALSE,
                                    trace_dma |-> FALSE],
                          config |-> [socket_path |-> "", sku |-> 0, l2_size |-> 0,
                                      trace_categories |-> {}],
                          hello |-> [sku |-> 0, num_engines |-> 0, l1_size |-> 0,
                                     l2_size |-> 0]]]


\* ------------------------------------------------------------------------
\* The client side of the connection (environment of the server)
\* ------------------------------------------------------------------------
Msg(magic, major, cmd, seq, full, p) ==
    [magic |-> magic, version_major |-> major, cmd |-> cmd, seq_id |-> seq,
     full |-> full, p |-> p]

HelloBodies ==
    { [open_ok |-> TRUE, map_ok |-> TRUE, shm_size |-> ShmSize],
      [open_ok |-> FALSE, map_ok |-> TRUE, shm_size |-> ShmSize],
      [open_ok |-> TRUE, map_ok |-> FALSE, shm_size |-> ShmSize] }

MatmulReq(o, d) ==
    [a_handle |-> o[1][1], a_offset |-> o[1][2],
     b_handle |-> o[2][1], b_offset |-> o[2][2],
     c_handle |-> o[3][1], c_offset |-> o[3][2],
     M |-> d[1], N |-> d[2], K |-> d[3],
     lda |-> d[3], ldb |-> d[3], ldc |-> d[2]]

MatmulReqs ==
    { MatmulReq(o, SmallDims) : o \in OperandTriples } \cup
    { MatmulReq(<<BaseOperand, BaseOperand, BaseOperand>>, d) : d \in DimTriples }

Bodies(cmd) ==
    IF cmd = NPM_EMU_CMD_HELLO THEN HelloBodies
    ELSE IF cmd = NPM_EMU_CMD_REGISTER_BUFFER THEN RegBodies
    ELSE IF cmd = NPM_EMU_CMD_UNREGISTER_BUFFER THEN { [handle |-> h] : h \in ReqHandles }
    ELSE IF cmd = NPM_EMU_CMD_MATMUL THEN MatmulReqs
    ELSE {[len |-> 0]}

\* cmd values a client may put in a header: the handled ones, GET_CONFIG and an undefined one
UndefinedCmd == 255
SentCmds == HandledCmds \cup {NPM_EMU_CMD_GET_CONFIG, UndefinedCmd}
BadMagic == 0
BadMajor == 2

ClientConnect ==
    /\ conn = "closed"
    /\ pc = "accept"
    /\ listen_fd # -1
    /\ nconn < MaxConn
    /\ conn' = "pending"
    /\ inq' = <<>>
    /\ peer_closed' = FALSE
    /\ seq_id' = 0
    /\ nconn' = nconn + 1
    /\ handled' = <<>>
    /\ sent' = <<>>
    /\ UNCHANGED << server_vars, last_rsp, issued, mem_access, last_matmul, first_dma_bytes,
                    nreq, mock_vars, unit_vars >>

CanSend ==
    /\ conn \in {"pending", "open"}
    /\ ~peer_closed
    /\ Len(inq) < MaxQueue
    /\ nreq < MaxReq

Enqueue(m) ==
    /\ inq' = Append(inq, m)
    /\ seq_id' = seq_id + 1
    /\ nreq' = nreq + 1
    /\ UNCHANGED << server_vars, conn, handled, sent, last_rsp, issued, mem_access,
                    last_matmul, first_dma_bytes, nconn, mock_vars, unit_vars >>

\* send_message: a header and its complete body
ClientSend ==
    /\ CanSend
    /\ \E cmd \in SentCmds : \E p \in Bodies(cmd) :
           Enqueue(Msg(NPM_EMU_MAGIC, NPM_EMU_VERSION_MAJOR, cmd, seq_id, TRUE, p))
    /\ peer_closed' = peer_closed

\* a header whose magic or major version is not the receiver's
ClientSendBadHeader ==
    /\ CanSend
    /\ \E h \in { <<BadMagic, NPM_EMU_VERSION_MAJOR>>, <<NPM_EMU_MAGIC, BadMajor>> },
          cmd \in {NPM_EMU_CMD_PING, NPM_EMU_CMD_UNREGISTER_BUFFER} :
           \E p \in Bodies(cmd) : Enqueue(Msg(h[1], h[2], cmd, seq_id, TRUE, p))
    /\ peer_closed' = peer_closed

\* a header followed by only part of its body, after which the client is gone
ClientSendShort ==
    /\ CanSend
    /\ \E cmd \in PayloadCmds :
           Enqueue(Msg(NPM_EMU_MAGIC, NPM_EMU_VERSION_MAJOR, cmd, seq_id, FALSE,
                       [len |-> 0]))
    /\ peer_closed' = TRUE

ClientClose ==
    /\ conn \in {"pending", "open"}
    /\ ~peer_closed
    /\ nreq < MaxReq
    /\ peer_closed' = TRUE
    /\ nreq' = nreq + 1
    /\ UNCHANGED << server_vars, conn, inq, seq_id, handled, sent, last_rsp, issued,
                    mem_access, last_matmul, first_dma_bytes, nconn, mock_vars, unit_vars >>


\* ------------------------------------------------------------------------
\* npm_emu_server_run
\* ------------------------------------------------------------------------
\* the process is in accept()/recv() and is not about to see the shutdown flag
Waiting == ~g_shutdown_requested \/ in_syscall

\* recv_all got a complete header
GotHeader == pc = "serve" /\ Waiting /\ inq # <<>>

\* the header was valid and the switch selected the handler of cmd
Dispatched(cmd) ==
    /\ GotHeader
    /\ npm_emu_header_validate(Head(inq)) = 0
    /\ Head(inq).cmd = cmd

\* the handler returns to the loop of npm_emu_server_run
BackToLoop ==
    /\ inq' = Tail(inq)
    /\ in_syscall' = FALSE
    /\ UNCHANGED << pc, g_shutdown_requested, conn, peer_closed, seq_id, nreq, nconn,
                    config, num_engines, l1_size, l2_size, listen_fd, client_fd, mock_vars, unit_vars >>

\* client_done: close(client_fd); client_fd = -1
client_done ==
    /\ client_fd' = -1
    /\ pc' = "accept"
    /\ in_syscall' = FALSE
    /\ conn' = "closed"
    /\ inq' = <<>>
    /\ UNCHANGED << g_shutdown_requested, peer_closed, seq_id, nreq, nconn,
                    config, num_engines, l1_size, l2_size, listen_fd, mock_vars, unit_vars >>

\* the request body arrived in full and the handler answers with rsp
Answer(rsp) ==
    /\ handled' = Append(handled, Head(inq).seq_id)
    /\ sent' = Append(sent, rsp.seq_id)
    /\ last_rsp' = rsp

\* recv_all of the request body failed: the handler returns without a reply
NoAnswer ==
    /\ last_rsp' = NoRsp
    /\ UNCHANGED << handled, sent >>

NotMatmul ==
    /\ mem_access' = NoAccess
    /\ last_matmul' = NoMatmul
    /\ first_dma_bytes' = -1
    /\ UNCHANGED << mem_hierarchy, dma_model, total_matmul_ops >>

Accept ==
    /\ pc = "accept"
    /\ Waiting
    /\ conn = "pending"
    /\ client_fd' = ClientFd
    /\ conn' = "open"
    /\ pc' = "serve"
    /\ in_syscall' = FALSE
    /\ UNCHANGED << config, num_engines, l1_size, l2_size, listen_fd, shm_base, shm_size,
                    buffers, next_handle, next_fence_id, total_matmul_ops, mem_hierarchy,
                    dma_model, g_shutdown_requested, mappings, inq, peer_closed, seq_id,
                    obs_vars, mock_vars, unit_vars >>

\* recv_all of the header fails: the client has disconnected
RecvHeaderFails ==
    /\ pc = "serve"
    /\ Waiting
    /\ inq = <<>>
    /\ peer_closed
    /\ client_done
    /\ NoAnswer
    /\ NotMatmul
    /\ UNCHANGED << shm_base, shm_size, buffers, next_handle, next_fence_id, mappings, issued >>

\* a loop that skips a header failing validation and reads the next one
InvalidHeader_skip ==
    /\ GotHeader
    /\ npm_emu_header_validate(Head(inq)) # 0
    /\ BackToLoop
    /\ NoAnswer
    /\ NotMatmul
    /\ UNCHANGED << shm_base, shm_size, buffers, next_handle, next_fence_id, mappings, issued >>

\* npm_emu_header_validate(&hdr) != 0: break
InvalidHeader ==
    /\ GotHeader
    /\ npm_emu_header_validate(Head(inq)) # 0
    /\ client_done
    /\ NoAnswer
    /\ NotMatmul
    /\ UNCHANGED << shm_base, shm_size, buffers, next_handle, next_fence_id, mappings, issued >>

\* default: of the switch: log, break out of the switch, next loop iteration
UnknownCommand ==
    /\ GotHeader
    /\ npm_emu_header_validate(Head(inq)) = 0
    /\ Head(inq).cmd \notin HandledCmds
    /\ BackToLoop
    /\ NoAnswer
    /\ NotMatmul
    /\ UNCHANGED << shm_base, shm_size, buffers, next_handle, next_fence_id, mappings, issued >>

\* the lowest address, a multiple of MapAddr, at which no mapping of the process starts
FreshAddr == CHOOSE a \in { MapAddr * k : k \in 1..(Cardinality(mappings) + 1) } :
                 /\ a \notin mappings
                 /\ \A b \in { MapAddr * k : k \in 1..(Cardinality(mappings) + 1) } \ mappings : a <= b

handle_hello ==
    /\ Dispatched(NPM_EMU_CMD_HELLO)
    /\ LET hdr == Head(inq)
           req == hdr.p
       IN IF ~hdr.full
          THEN /\ NoAnswer
               /\ UNCHANGED << shm_base, shm_size, mappings >>
          ELSE LET base == IF ~req.open_ok THEN shm_base
                           ELSE IF req.map_ok THEN FreshAddr ELSE 0
                   rsp == npm_emu_header_init(NPM_EMU_CMD_HELLO, hdr.seq_id,
                              IF base # 0 THEN NPM_EMU_STATUS_OK ELSE NPM_EMU_STATUS_ERROR)
               IN /\ shm_base' = base
                  /\ shm_size' = IF req.open_ok /\ req.map_ok THEN req.shm_size ELSE shm_size
                  /\ mappings' = IF req.open_ok /\ req.map_ok
                                 THEN mappings \cup {FreshAddr} ELSE mappings
                  /\ Answer(rsp)
    /\ BackToLoop
    /\ NotMatmul
    /\ UNCHANGED << buffers, next_handle, next_fence_id, issued >>

\* handle_goodbye without buffers.clear()
handle_goodbye_keeps_registry ==
    /\ Dispatched(NPM_EMU_CMD_GOODBYE)
    /\ mappings' = IF shm_base # 0 THEN mappings \ {shm_base} ELSE mappings
    /\ shm_base' = 0
    /\ shm_size' = IF shm_base # 0 THEN 0 ELSE shm_size
    /\ Answer(npm_emu_header_init(NPM_EMU_CMD_GOODBYE, Head(inq).seq_id, NPM_EMU_STATUS_OK))
    /\ client_done
    /\ NotMatmul
    /\ UNCHANGED << buffers, next_handle, next_fence_id, issued >>

handle_goodbye ==
    /\ Dispatched(NPM_EMU_CMD_GOODBYE)
    /\ mappings' = IF shm_base # 0 THEN mappings \ {shm_base} ELSE mappings
    /\ shm_base' = 0
    /\ shm_size' = IF shm_base # 0 THEN 0 ELSE shm_size
    /\ buffers' = EmptyMap
    /\ Answer(npm_emu_header_init(NPM_EMU_CMD_GOODBYE, Head(inq).seq_id, NPM_EMU_STATUS_OK))
    /\ client_done
    /\ NotMatmul
    /\ UNCHANGED << next_handle, next_fence_id, issued >>

\* handlers that read a body and reply OK without touching the registry:
\* handle_ping, handle_fence_destroy, handle_fence_wait
ReplyOkAfterBody(cmd) ==
    /\ Dispatched(cmd)
    /\ IF Head(inq).full
       THEN Answer(npm_emu_header_init(cmd, Head(inq).seq_id, NPM_EMU_STATUS_OK))
       ELSE NoAnswer
    /\ BackToLoop
    /\ NotMatmul
    /\ UNCHANGED << shm_base, shm_size, buffers, next_handle, next_fence_id, mappings, issued >>

handle_ping == ReplyOkAfterBody(NPM_EMU_CMD_PING)
handle_fence_destroy == ReplyOkAfterBody(NPM_EMU_CMD_FENCE_DESTROY)
handle_fence_wait == ReplyOkAfterBody(NPM_EMU_CMD_FENCE_WAIT)

handle_sync ==
    /\ Dispatched(NPM_EMU_CMD_SYNC)
    /\ Answer(npm_emu_header_init(NPM_EMU_CMD_SYNC, Head(inq).seq_id, NPM_EMU_STATUS_OK))
    /\ BackToLoop
    /\ NotMatmul
    /\ UNCHANGED << shm_base, shm_size, buffers, next_handle, next_fence_id, mappings, issued >>

handle_fence_create ==
    /\ Dispatched(NPM_EMU_CMD_FENCE_CREATE)
    /\ next_fence_id' = next_fence_id + 1
    /\ Answer([npm_emu_header_init(NPM_EMU_CMD_FENCE_CREATE, Head(inq).seq_id, NPM_EMU_STATUS_OK)
                  EXCEPT !.handle = next_fence_id])
    /\ BackToLoop
    /\ NotMatmul
    /\ UNCHANGED << shm_base, shm_size, buffers, next_handle, mappings, issued >>

\* handle_register_buffer that takes next_handle without incrementing it
handle_register_buffer_no_increment ==
    /\ Dispatched(NPM_EMU_CMD_REGISTER_BUFFER)
    /\ LET hdr == Head(inq)
           req == hdr.p
           handle == next_handle
       IN IF ~hdr.full
          THEN /\ NoAnswer
               /\ UNCHANGED << buffers, issued >>
          ELSE /\ buffers' = [h \in DOMAIN buffers \cup {handle} |->
                                 IF h = handle
                                 THEN [shm_offset |-> req.shm_offset, size |-> req.size]
                                 ELSE buffers[h]]
               /\ issued' = Append(issued, handle)
               /\ Answer([npm_emu_header_init(NPM_EMU_CMD_REGISTER_BUFFER, hdr.seq_id,
                                              NPM_EMU_STATUS_OK) EXCEPT !.handle = handle])
    /\ BackToLoop
    /\ NotMatmul
    /\ UNCHANGED << shm_base, shm_size, next_handle, next_fence_id, mappings >>

handle_register_buffer ==
    /\ Dispatched(NPM_EMU_CMD_REGISTER_BUFFER)
    /\ LET hdr == Head(inq)
           req == hdr.p
           handle == next_handle
       IN IF ~hdr.full
          THEN /\ NoAnswer
               /\ UNCHANGED << buffers, next_handle, issued >>
          ELSE /\ next_handle' = next_handle + 1
               /\ buffers' = [h \in DOMAIN buffers \cup {handle} |->
                                 IF h = handle
                                 THEN [shm_offset |-> req.shm_offset, size |-> req.size]
                                 ELSE buffers[h]]
               /\ issued' = Append(issued, handle)
               /\ Answer([npm_emu_header_init(NPM_EMU_CMD_REGISTER_BUFFER, hdr.seq_id,
                                              NPM_EMU_STATUS_OK) EXCEPT !.handle = handle])
    /\ BackToLoop
    /\ NotMatmul
    /\ UNCHANGED << shm_base, shm_size, next_fence_id, mappings >>

\* UNREGISTER_BUFFER emptying the registry instead of erasing one handle
handle_unregister_buffer_clear ==
    /\ Dispatched(NPM_EMU_CMD_UNREGISTER_BUFFER)
    /\ LET hdr == Head(inq)
       IN IF ~hdr.full
          THEN /\ NoAnswer
               /\ UNCHANGED buffers
          ELSE /\ buffers' = EmptyMap
               /\ Answer(npm_emu_header_init(NPM_EMU_CMD_UNREGISTER_BUFFER, hdr.seq_id,
                                             NPM_EMU_STATUS_OK))
    /\ BackToLoop
    /\ NotMatmul
    /\ UNCHANGED << shm_base, shm_size, next_handle, next_fence_id, mappings, issued >>

handle_unregister_buffer ==
    /\ Dispatched(NPM_EMU_CMD_UNREGISTER_BUFFER)
    /\ LET hdr == Head(inq)
           req == hdr.p
       IN IF ~hdr.full
          THEN /\ NoAnswer
               /\ UNCHANGED buffers
          ELSE /\ buffers' = [h \in DOMAIN buffers \ {req.handle} |-> buffers[h]]
               /\ Answer(npm_emu_header_init(NPM_EMU_CMD_UNREGISTER_BUFFER, hdr.seq_id,
                                             NPM_EMU_STATUS_OK))
    /\ BackToLoop
    /\ NotMatmul
    /\ UNCHANGED << shm_base, shm_size, next_handle, next_fence_id, mappings, issued >>


\* every byte of the interval lies in the region the server has attached
InRegion(iv) ==
    \/ iv = <<0, 0>>
    \/ /\ shm_base # 0
       /\ shm_base \in mappings
       /\ shm_base <= iv[1]
       /\ iv[2] <= shm_base + shm_size

handle_matmul ==
    /\ Dispatched(NPM_EMU_CMD_MATMUL)
    /\ LET hdr == Head(inq)
           req == hdr.p
       IN IF ~hdr.full
          THEN /\ NoAnswer
               /\ BackToLoop
               /\ NotMatmul
               /\ UNCHANGED mappings
          ELSE LET A == resolve_handle(buffers, shm_base, req.a_handle, req.a_offset)
                   B == resolve_handle(buffers, shm_base, req.b_handle, req.b_offset)
                   C == resolve_handle(buffers, shm_base, req.c_handle, req.c_offset)
               IN IF A = 0 \/ B = 0 \/ C = 0
                  THEN /\ Answer(npm_emu_header_init(NPM_EMU_CMD_MATMUL, hdr.seq_id,
                                                     NPM_EMU_STATUS_INVALID_HANDLE))
                       /\ BackToLoop
                       /\ mem_access' = NoAccess
                       /\ last_matmul' = [status |-> NPM_EMU_STATUS_INVALID_HANDLE,
                                          req |-> req, dma_bytes |-> 0, cycles |-> 0]
                       /\ first_dma_bytes' = -1
                       /\ UNCHANGED << mem_hierarchy, dma_model, total_matmul_ops, mappings >>
                  ELSE \E run \in { IF config.tiling_enabled
                                     THEN TiledMatmul(mem_hierarchy, dma_model, config,
                                                      l1_size, req)
                                     ELSE SimpleMatmul(mem_hierarchy, dma_model, req) } :
                       \E acc \in { [a |-> Touched(A, run.a_end), b |-> Touched(B, run.b_end),
                                     c |-> Touched(C, run.c_end)] } :
                       LET total_dma_bytes == IF config.tiling_enabled
                                              THEN run.dma.total_bytes ELSE 0
                           total_cycles == IF config.tiling_enabled /\ config.timing_enabled
                                           THEN run.dma.current_cycle ELSE 0
                           rsp == [npm_emu_header_init(NPM_EMU_CMD_MATMUL, hdr.seq_id,
                                                       NPM_EMU_STATUS_OK)
                                       EXCEPT !.cycles = total_cycles,
                                              !.dma_bytes = total_dma_bytes]
                       IN \/ \* the loops run to completion and the reply is sent
                             /\ mem_hierarchy' = run.mh
                             /\ dma_model' = run.dma
                             /\ total_matmul_ops' = total_matmul_ops + 1
                             /\ mem_access' = acc
                             /\ last_matmul' = [status |-> NPM_EMU_STATUS_OK, req |-> req,
                                                dma_bytes |-> total_dma_bytes,
                                                cycles |-> total_cycles]
                             /\ first_dma_bytes' =
                                    IF last_matmul.status = NPM_EMU_STATUS_OK
                                       /\ last_matmul.req = req
                                    THEN last_matmul.dma_bytes ELSE -1
                             /\ Answer(rsp)
                             /\ BackToLoop
                             /\ UNCHANGED mappings
                          \/ \* an access outside the attached region may fault: the process dies
                             /\ ~(InRegion(acc.a) /\ InRegion(acc.b) /\ InRegion(acc.c))
                             /\ pc' = "crashed"
                             /\ client_fd' = -1
                             /\ mappings' = {}
                             /\ conn' = "closed"
                             /\ inq' = <<>>
                             /\ peer_closed' = FALSE
                             /\ in_syscall' = FALSE
                             /\ handled' = Append(handled, hdr.seq_id)
                             /\ last_rsp' = NoRsp
                             /\ mem_access' = acc
                             /\ UNCHANGED << sent, last_matmul, first_dma_bytes, mem_hierarchy,
                                             dma_model, total_matmul_ops, g_shutdown_requested,
                                             seq_id, nreq, nconn, config, num_engines, l1_size,
                                             l2_size, listen_fd, mock_vars, unit_vars >>
    /\ UNCHANGED << shm_base, shm_size, buffers, next_handle, next_fence_id, issued >>

\* SIGINT/SIGTERM handler, npm_emu_server_shutdown: only the flag is set.  The
\* signal finds the process either inside accept()/recv(), which then resumes,
\* or on its way to the next test of the flag.
npm_emu_server_shutdown ==
    /\ pc \in {"accept", "serve"}
    /\ ~g_shutdown_requested
    /\ nreq < MaxReq
    /\ g_shutdown_requested' = TRUE
    /\ in_syscall' \in BOOLEAN
    /\ nreq' = nreq + 1
    /\ UNCHANGED << config, num_engines, l1_size, l2_size, listen_fd, client_fd, shm_base,
                    shm_size, buffers, next_handle, next_fence_id, total_matmul_ops,
                    mem_hierarchy, dma_model, pc, mappings, conn_vars, handled, sent,
                    last_rsp, issued, mem_access, last_matmul, first_dma_bytes, nconn,
                    mock_vars, unit_vars >>

\* the inner while sees the flag: fall through to client_done
LeaveSession ==
    /\ pc = "serve"
    /\ g_shutdown_requested
    /\ ~in_syscall
    /\ client_done
    /\ NoAnswer
    /\ NotMatmul
    /\ UNCHANGED << shm_base, shm_size, buffers, next_handle, next_fence_id, mappings, issued >>

\* the outer while sees the flag: npm_emu_server_run returns
LeaveRun ==
    /\ pc = "accept"
    /\ g_shutdown_requested
    /\ ~in_syscall
    /\ pc' = "stopped"
    /\ UNCHANGED << config, num_engines, l1_size, l2_size, listen_fd, client_fd, shm_base,
                    shm_size, buffers, next_handle, next_fence_id, total_matmul_ops,
                    mem_hierarchy, dma_model, g_shutdown_requested, in_syscall, mappings,
                    conn_vars, obs_vars, mock_vars, unit_vars >>

npm_emu_server_destroy ==
    /\ pc = "stopped"
    /\ pc' = "destroyed"
    /\ client_fd' = -1
    /\ listen_fd' = -1
    /\ mappings' = IF shm_base # 0 THEN mappings \ {shm_base} ELSE mappings
    /\ conn' = "closed"
    /\ inq' = <<>>
    /\ peer_closed' = FALSE
    /\ UNCHANGED << config, num_engines, l1_size, l2_size, shm_base, shm_size, buffers,
                    next_handle, next_fence_id, total_matmul_ops, mem_hierarchy, dma_model,
                    g_shutdown_requested, in_syscall, seq_id, obs_vars, mock_vars, unit_vars >>

\* ------------------------------------------------------------------------
\* Mock device (npm-device-mock.cpp)
\* ------------------------------------------------------------------------
GGML_TYPE_F32 == 0
GGML_TYPE_F16 == 1

\* host pointers and sizes a caller passes to the mock; 0 is NULL
HostPtrs == {0, 4096, 8192}
HostSizes == {0, 4, 16}
MockDims == { <<1, 1, 1>>, <<2, 2, 2>>, <<1, 1, 0>> }
MockTypes == { <<GGML_TYPE_F32, GGML_TYPE_F32, GGML_TYPE_F32>>,
               <<GGML_TYPE_F16, GGML_TYPE_F32, GGML_TYPE_F32>>,
               <<GGML_TYPE_F32, GGML_TYPE_F16, GGML_TYPE_F32>>,
               <<GGML_TYPE_F32, GGML_TYPE_F32, GGML_TYPE_F16>> }

MockMatmulParams ==
    { [a_handle |-> o[1][1], a_offset |-> o[1][2],
       b_handle |-> o[2][1], b_offset |-> o[2][2],
       c_handle |-> o[3][1], c_offset |-> o[3][2],
       M |-> d[1], N |-> d[2], K |-> d[3],
       lda |-> d[3], ldb |-> d[3], ldc |-> d[2],
       type_a |-> t[1], type_b |-> t[2], type_c |-> t[3]] :
          o \in OperandTriples, d \in MockDims, t \in MockTypes }

\* the pointer for (handle, offset), 0 (nullptr) when the handle is unknown
npm_device_mock_resolve_handle(bufs, handle, offset) ==
    IF handle \notin DOMAIN bufs THEN 0
    ELSE bufs[handle].ptr + offset

\* the triple loop of npm_device_mock_matmul: per operand, the end (in floats past
\* the operand pointer) of what it touches
MockLoops(params) ==
    LET inner == params.M > 0 /\ params.N > 0 /\ params.K > 0
        outer == params.M > 0 /\ params.N > 0
    IN [a_end |-> IF inner THEN (params.M - 1) * params.lda + params.K ELSE 0,
        b_end |-> IF inner THEN (params.N - 1) * params.ldb + params.K ELSE 0,
        c_end |-> IF outer THEN (params.M - 1) * params.ldc + params.N ELSE 0,
        log |-> IF outer
                THEN << [ev |-> "assign", m0 |-> 0, mc |-> params.M, n0 |-> 0,
                         nc |-> params.N, k0 |-> 0, kc |-> Max(params.K, 0)] >>
                ELSE << >>]

MockStep ==
    /\ ~mock_crashed
    /\ mock_ops < MaxMockOps
    /\ mock_ops' = mock_ops + 1
    /\ UNCHANGED << server_vars, conn_vars, obs_vars, unit_vars >>

npm_device_mock_register_buffer ==
    /\ MockStep
    /\ \E ptr \in HostPtrs, size \in HostSizes :
          /\ mock_call' = [op |-> "register_buffer", ptr |-> ptr, size |-> size]
          /\ IF ptr = 0 \/ size = 0
             THEN /\ mock_rc' = -1
                  /\ UNCHANGED << mock_buffers, mock_next_handle >>
             ELSE /\ mock_rc' = 0
                  /\ mock_next_handle' = mock_next_handle + 1
                  /\ mock_buffers' = [h \in DOMAIN mock_buffers \cup {mock_next_handle} |->
                                         IF h = mock_next_handle
                                         THEN [ptr |-> ptr, size |-> size]
                                         ELSE mock_buffers[h]]
    /\ mock_access' = NoAccess
    /\ UNCHANGED mock_crashed

npm_device_mock_unregister_buffer ==
    /\ MockStep
    /\ \E handle \in ReqHandles :
          /\ mock_call' = [op |-> "unregister_buffer", handle |-> handle]
          /\ mock_buffers' = [h \in DOMAIN mock_buffers \ {handle} |-> mock_buffers[h]]
    /\ mock_rc' = 0
    /\ mock_access' = NoAccess
    /\ UNCHANGED << mock_next_handle, mock_crashed >>

npm_device_mock_update_buffer ==
    /\ MockStep
    /\ \E handle \in ReqHandles, ptr \in HostPtrs \ {0}, size \in HostSizes \ {0} :
          /\ mock_call' = [op |-> "update_buffer", handle |-> handle, ptr |-> ptr,
                           size |-> size]
          /\ IF handle \notin DOMAIN mock_buffers
             THEN /\ mock_rc' = -1
                  /\ UNCHANGED mock_buffers
             ELSE /\ mock_rc' = 0
                  /\ mock_buffers' = [mock_buffers EXCEPT ![handle] =
                                         [ptr |-> ptr, size |-> size]]
    /\ mock_access' = NoAccess
    /\ UNCHANGED << mock_next_handle, mock_crashed >>

\* every byte of the interval lies in the host buffer registered under the handle
InHostBuffer(bufs, handle, iv) ==
    \/ iv = <<0, 0>>
    \/ /\ handle \in DOMAIN bufs
       /\ bufs[handle].ptr <= iv[1]
       /\ iv[2] <= bufs[handle].ptr + bufs[handle].size

npm_device_mock_matmul ==
    /\ MockStep
    /\ \E params \in MockMatmulParams :
          /\ mock_call' = [op |-> "matmul", params |-> params]
          /\ IF \/ params.type_a # GGML_TYPE_F32
                \/ params.type_b # GGML_TYPE_F32
                \/ params.type_c # GGML_TYPE_F32
             THEN /\ mock_rc' = -1
                  /\ mock_access' = NoAccess
                  /\ UNCHANGED mock_crashed
             ELSE LET A == npm_device_mock_resolve_handle(mock_buffers, params.a_handle,
                                                          params.a_offset)
                      B == npm_device_mock_resolve_handle(mock_buffers, params.b_handle,
                                                          params.b_offset)
                      C == npm_device_mock_resolve_handle(mock_buffers, params.c_handle,
                                                          params.c_offset)
                      run == MockLoops(params)
                      acc == [a |-> Touched(A, run.a_end), b |-> Touched(B, run.b_end),
                              c |-> Touched(C, run.c_end)]
                  IN IF A = 0 \/ B = 0 \/ C = 0
                     THEN /\ mock_rc' = -2
                          /\ mock_access' = NoAccess
                          /\ UNCHANGED mock_crashed
                     ELSE /\ mock_access' = acc
                          /\ \/ /\ mock_rc' = 0
                                /\ UNCHANGED mock_crashed
                             \/ \* an access past the host buffer may fault
                                /\ ~(/\ InHostBuffer(mock_buffers, params.a_handle, acc.a)
                                     /\ InHostBuffer(mock_buffers, params.b_handle, acc.b)
                                     /\ InHostBuffer(mock_buffers, params.c_handle, acc.c))
                                /\ mock_crashed' = TRUE
                                /\ UNCHANGED mock_rc
    /\ UNCHANGED << mock_buffers, mock_next_handle >>

npm_device_mock_shutdown ==
    /\ MockStep
    /\ mock_call' = [op |-> "shutdown"]
    /\ mock_buffers' = EmptyMap
    /\ mock_rc' = 0
    /\ mock_access' = NoAccess
    /\ UNCHANGED << mock_next_handle, mock_crashed >>

NextMock ==
    \/ npm_device_mock_register_buffer
    \/ npm_device_mock_unregister_buffer
    \/ npm_device_mock_update_buffer
    \/ npm_device_mock_matmul
    \/ npm_device_mock_shutdown

SpecMock == Init /\ [][NextMock]_vars

\* ------------------------------------------------------------------------
\* The memory hierarchy driven on its own (npm_memory_hierarchy)
\* ------------------------------------------------------------------------
HierStep ==
    /\ hier_ops < MaxHierOps
    /\ hier_ops' = hier_ops + 1
    /\ UNCHANGED << server_vars, conn_vars, obs_vars, mock_vars, tile_run, emu_vars,
                    npm_backend, solo >>

\* a block with this key is in the list
Live(blocks, key) ==
    \E i \in 1..Len(blocks) : blocks[i].handle = key[1] /\ blocks[i].offset = key[2]

\* the block of the list that has this key
BlockOf(blocks, key) ==
    blocks[CHOOSE i \in 1..Len(blocks) :
               blocks[i].handle = key[1] /\ blocks[i].offset = key[2]]

\* a call of stage_to_l2(handle, offset, size, ddr_ptr) and the slot it returns
HierStageToL2 ==
    /\ HierStep
    /\ \E key \in HierKeys, size \in HierSizes :
       \E after \in { stage_to_l2(hier, key[1], key[2], size) } :
       \E blk \in { BlockOf(after.l2_model.blocks, key) } :
          /\ hier' = after
          /\ hier_op' = [op |-> "stage_to_l2", engine_id |-> -1, key |-> key, size |-> size,
                         ret |-> blk.local_offset, stamp |-> blk.last_access,
                         live |-> Live(hier.l2_model.blocks, key),
                         d_hits |-> after.l2_hits - hier.l2_hits,
                         d_misses |-> after.l2_misses - hier.l2_misses,
                         d_bytes |-> after.total_bytes_moved - hier.total_bytes_moved,
                         max_ever |-> hier_max.ever, max_epoch |-> hier_max.epoch]
          /\ hier_touch' = [hier_touch EXCEPT !.l2 = Append(hier_touch.l2, key)]
          /\ hier_max' = [ever |-> Max(hier_max.ever, blk.last_access),
                          epoch |-> Max(hier_max.epoch, blk.last_access)]
          /\ hier_slot' = IF Live(hier.l2_model.blocks, key) THEN hier_slot
                          ELSE [hier_slot EXCEPT ![key] = blk.local_offset]

\* a call of stage_to_l1(engine_id, handle, offset, size): nullptr for an engine
\* that does not exist (engine 1) and for a key that is not in L2
HierStageToL1 ==
    /\ HierStep
    /\ \E engine_id \in {0, 1}, key \in HierKeys, size \in HierSizes :
       \E after \in { stage_to_l1(hier, engine_id, key[1], key[2], size) } :
       \E staged \in { /\ engine_id \in DOMAIN after.l1_models
                        /\ Live(after.l1_models[0].blocks, key) } :
       \E blk \in { IF staged THEN BlockOf(after.l1_models[0].blocks, key)
                     ELSE NewBlock(key[1], key[2], 0, -1, 0) } :
          /\ hier' = after
          /\ hier_op' = [op |-> "stage_to_l1", engine_id |-> engine_id, key |-> key,
                         size |-> size, ret |-> blk.local_offset, stamp |-> blk.last_access,
                         live |-> /\ engine_id \in DOMAIN hier.l1_models
                                  /\ Live(hier.l1_models[0].blocks, key),
                         d_hits |-> after.l1_hits - hier.l1_hits,
                         d_misses |-> after.l1_misses - hier.l1_misses,
                         d_bytes |-> after.total_bytes_moved - hier.total_bytes_moved,
                         max_ever |-> hier_max.ever, max_epoch |-> hier_max.epoch]
          /\ hier_touch' = IF staged
                           THEN [hier_touch EXCEPT !.l1 = Append(hier_touch.l1, key)]
                           ELSE hier_touch
          /\ hier_max' = [ever |-> Max(hier_max.ever, blk.last_access),
                          epoch |-> Max(hier_max.epoch, blk.last_access)]
          /\ UNCHANGED hier_slot

\* a call of reset()
HierReset ==
    /\ HierStep
    /\ hier' = reset(hier)
    /\ hier_op' = [NoHierOp EXCEPT !.op = "reset", !.max_ever = hier_max.ever,
                                   !.max_epoch = hier_max.epoch]
    /\ hier_touch' = [l1 |-> <<>>, l2 |-> <<>>]
    /\ hier_max' = [hier_max EXCEPT !.epoch = 0]
    /\ hier_slot' = [k \in HierKeys |-> -1]

NextHier ==
    \/ HierStageToL2
    \/ HierStageToL1
    \/ HierReset

SpecHier == Init /\ [][NextHier]_vars

\* ------------------------------------------------------------------------
\* The matmul loops run on their own: tiled and simple branch of handle_matmul,
\* and the loops of the mock device
\* ------------------------------------------------------------------------
\* (M, N, K) around the tile size of 256: one tile, a trailing tile of one
\* row, column or k-step, and the shape (65, 130, 65)
TileDimTriples ==
    { d \in {1, 2, 257} \X {1, 2, 257} \X {1, 257} : d[1] * d[2] <= 514 }
        \cup { <<257, 257, 257>>, <<65, 130, 65>> }
\* A, B and C in three buffers, or A and B read from the same bytes;
\* lda = K, ldb = K, ldc = N, as the callers set them
TileReqs ==
    { [a_handle |-> o[1], a_offset |-> 0, b_handle |-> o[2], b_offset |-> 0,
       c_handle |-> o[3], c_offset |-> 0, M |-> d[1], N |-> d[2], K |-> d[3],
       lda |-> d[3], ldb |-> d[3], ldc |-> d[2]] : 
         o \in { <<1, 2, 3>>, <<1, 1, 3>> }, d \in TileDimTriples }

TileRun(mode, req, run) ==
    /\ tile_run' = [mode |-> mode, req |-> req, log |-> run.log]
    /\ UNCHANGED << server_vars, conn_vars, obs_vars, mock_vars, hier_vars, emu_vars,
                    npm_backend, solo >>

\* the tiled branch on a server as npm_emu_server_create leaves it
TileRunTiled ==
    \E req \in TileReqs, cfg \in { c \in Configs : c.tiling_enabled } :
    \E sku_config \in { npm_get_sku_config(cfg.sku) } :
    \E run \in { TiledMatmul(npm_memory_hierarchy(sku_config.num_engines, sku_config.l1_size,
                                                  sku_config.l2_size_default),
                              npm_dma_model(npm_dma_config), cfg, sku_config.l1_size, req) } :
        TileRun("tiled", req, run)

TileRunSimple ==
    \E req \in TileReqs :
    \E run \in { SimpleMatmul(mem_hierarchy, dma_model, req) } :
        TileRun("simple", req, run)

TileRunMock ==
    \E req \in TileReqs :
    \E run \in { MockLoops(req) } :
        TileRun("mock", req, run)

NextTile ==
    \/ TileRunTiled
    \/ TileRunSimple
    \/ TileRunMock

SpecTile == Init /\ [][NextTile]_vars

\* ------------------------------------------------------------------------
\* The IPC client (npm-device-emulator.cpp) with the emulator at the far end
\* ------------------------------------------------------------------------
\* bump allocation in the shared region: the offset handed out (-1 when the
\* region is full or size is 0) and the new allocation mark
\* size_t arithmetic is modulo 2^SizeBits; an alignment of 0 stands for 64
npm_shm_alloc(allocated, region_size, size, alignment_arg) ==
    LET RECURSIVE BitAnd(_, _)
        BitAnd(a, b) == IF a = 0 \/ b = 0 THEN 0
                        ELSE (a % 2) * (b % 2) + 2 * BitAnd(a \div 2, b \div 2)
        alignment == IF alignment_arg = 0 THEN 64 ELSE alignment_arg
        aligned_offset == BitAnd((allocated + alignment - 1) % SizeMod,
                                 SizeMod - alignment)
        new_allocated == (aligned_offset + size) % SizeMod
    IN IF size = 0 \/ new_allocated > region_size
       THEN [offset |-> -1, allocated |-> allocated]
       ELSE [offset |-> aligned_offset, allocated |-> new_allocated]

\* f with x mapped to v
EmuPut(f, x, v) == [y \in DOMAIN f \cup {x} |-> IF y = x THEN v ELSE f[y]]

\* one call on the device returns: ctx is the context it leaves.  The call is
\* remembered together with the unregister_buffer it directly follows, if any
EmuReturn(ctx, call) ==
    /\ emu_ctx.ops < MaxEmuOps
    /\ emu_ctx' = [ctx EXCEPT !.ops = emu_ctx.ops + 1]
    /\ emu_call' = call @@ [after |-> IF emu_call.op = "unregister"
                                       THEN [handle |-> emu_call.handle,
                                             erased |-> emu_call.erased]
                                       ELSE [handle |-> 0, erased |-> {}]]
    /\ UNCHANGED << server_vars, conn_vars, obs_vars, mock_vars, hier_vars, tile_run,
                    npm_backend, solo >>

\* send_message followed by recv_response on a socket that is lost before the
\* request leaves ("send"), after the server handled it ("recv"), or not at
\* all ("none"): whether the server got the request and whether the client
\* got the response.  With "late" the socket stays up but recv gives up after
\* the SO_RCVTIMEO of 5 seconds, before the server's response arrives
EmuExchange(ctx, lost) ==
    [sent |-> ctx.connected /\ lost # "send",
     received |-> ctx.connected /\ lost = "none"]

\* the device operations of the IPC client: the context the call leaves, and
\* the call with what it returned
npm_device_emu_register_buffer(ctx, ptr, size, lost) ==
    LET a == npm_shm_alloc(ctx.allocated, EmuShmSize, size, 64)
        x == EmuExchange(ctx, lost)
        handle == ctx.srv_next_handle
        copied == [ctx EXCEPT
                      !.allocated = a.allocated,
                      !.shm = EmuPut(@, a.offset, ctx.host[ptr]),
                      !.seq_id = @ + 1,
                      !.connected = x.received]
        served == IF x.sent
                  THEN [copied EXCEPT
                           !.srv_next_handle = @ + 1,
                           !.srv_buffers = EmuPut(@, handle,
                               [shm_offset |-> a.offset, size |-> size])]
                  ELSE copied
        call == [op |-> "register", rc |-> 0, handle |-> 0, ptr |-> ptr, size |-> size]
    IN IF ptr = 0 \/ size = 0
       THEN [ctx |-> ctx, call |-> [call EXCEPT !.rc = -1]]
       ELSE IF a.offset = -1
       THEN [ctx |-> ctx, call |-> [call EXCEPT !.rc = -1]]
       ELSE IF ~x.received
       THEN [ctx |-> served, call |-> [call EXCEPT !.rc = -1]]
       ELSE [ctx |-> [served EXCEPT
                         !.buffers = EmuPut(@, ptr,
                             [handle |-> handle, shm_offset |-> a.offset, size |-> size]),
                         !.host_of = EmuPut(@, handle, ptr)],
             call |-> [call EXCEPT !.handle = handle]]

npm_device_emu_unregister_buffer(ctx, handle, lost) ==
    LET x == EmuExchange(ctx, lost)
        keep == { p \in DOMAIN ctx.buffers : ctx.buffers[p].handle # handle }
    IN [ctx |-> [ctx EXCEPT
                    !.buffers = [p \in keep |-> @[p]],
                    !.host_of = [h \in DOMAIN @ \ {handle} |-> @[h]],
                    !.seq_id = @ + 1,
                    !.connected = x.received,
                    !.srv_buffers = IF x.sent
                                    THEN [h \in DOMAIN @ \ {handle} |-> @[h]]
                                    ELSE @],
        call |-> [op |-> "unregister", rc |-> 0, handle |-> handle,
                  erased |-> { [ptr |-> p, size |-> ctx.buffers[p].size] :
                                  p \in DOMAIN ctx.buffers \ keep }]]

npm_device_emu_update_buffer(ctx, handle, ptr, size) ==
    LET entries == { p \in DOMAIN ctx.buffers : ctx.buffers[p].handle = handle }
        entry == ctx.buffers[CHOOSE p \in entries : TRUE]
        call == [op |-> "update", handle |-> handle, size |-> size,
                 shm_before |-> ctx.shm, buffers_before |-> ctx.buffers]
    IN IF entries = {}
       THEN [ctx |-> ctx, call |-> call @@ [rc |-> -1]]
       ELSE IF size > entry.size
       THEN [ctx |-> ctx, call |-> call @@ [rc |-> -2]]
       ELSE [ctx |-> [ctx EXCEPT !.shm = EmuPut(@, entry.shm_offset, ctx.host[ptr])],
             call |-> call @@ [rc |-> 0]]

npm_device_emu_matmul(ctx, a_handle, b_handle, c_handle, lost) ==
    LET x == EmuExchange(ctx, lost)
        found == \A h \in {a_handle, b_handle, c_handle} :
                     resolve_handle(ctx.srv_buffers, 1, h, 0) # 0
        status == IF found THEN NPM_EMU_STATUS_OK ELSE NPM_EMU_STATUS_INVALID_HANDLE
        output == ctx.seq_id
        wrote == x.sent /\ found
        shm == IF wrote
               THEN EmuPut(ctx.shm, ctx.srv_buffers[c_handle].shm_offset, output)
               ELSE ctx.shm
        \* what recv_response reads: the oldest response in the socket
        stream == IF x.sent
                  THEN Append(ctx.rxq, [seq_id |-> ctx.seq_id, status |-> status])
                  ELSE ctx.rxq
        rsp == IF x.received THEN Head(stream) ELSE [seq_id |-> -1, status |-> -1]
        rc == IF x.received /\ rsp.status = NPM_EMU_STATUS_OK THEN 0 ELSE -1
        host == [p \in DOMAIN ctx.host |->
                    IF /\ rc = 0
                       /\ p \in DOMAIN ctx.buffers
                       /\ ctx.buffers[p].handle = c_handle
                    THEN shm[ctx.buffers[p].shm_offset]
                    ELSE ctx.host[p]]
    IN [ctx |-> [ctx EXCEPT !.shm = shm, !.host = host, !.seq_id = @ + 1,
                            !.connected = x.received \/ (ctx.connected /\ lost = "late"),
                            !.rxq = IF x.received THEN Tail(stream)
                                    ELSE IF lost = "late" THEN stream ELSE << >>],
        call |-> [op |-> "matmul", rc |-> rc, a_handle |-> a_handle,
                  seq_id |-> ctx.seq_id, rsp |-> rsp,
                  b_handle |-> b_handle, c_handle |-> c_handle,
                  received |-> x.received, status |-> status,
                  output |-> IF wrote THEN output ELSE 0,
                  host_before |-> ctx.host]]

\* register_buffer and unregister_buffer are followed on a socket that holds
\* no unread response; a MATMUL response left unread is longer than theirs
NextEmu ==
    \/ \E ptr \in 0..2, size \in {0, 64, 128}, lost \in {"none", "send", "recv"} :
       \E r \in { npm_device_emu_register_buffer(emu_ctx, ptr, size, lost) } :
           emu_ctx.rxq = << >> /\ EmuReturn(r.ctx, r.call)
    \/ \E handle \in 1..3, lost \in {"none", "send", "recv"} :
       \E r \in { npm_device_emu_unregister_buffer(emu_ctx, handle, lost) } :
           emu_ctx.rxq = << >> /\ EmuReturn(r.ctx, r.call)
    \/ \E handle \in 1..3, ptr \in 1..2, size \in {64, 128} :
       \E r \in { npm_device_emu_update_buffer(emu_ctx, handle, ptr, size) } :
           EmuReturn(r.ctx, r.call)
    \/ \E a_handle \in 1..2, c_handle \in 1..3, lost \in {"none", "send", "recv", "late"} :
       \E r \in { npm_device_emu_matmul(emu_ctx, a_handle, a_handle, c_handle, lost) } :
           EmuReturn(r.ctx, r.call)

SpecEmu == Init /\ [][NextEmu]_vars

\* ------------------------------------------------------------------------
\* The dispatcher (ggml-npm.cpp) on an IPC client device
\* ------------------------------------------------------------------------
\* In this section st is the state a dispatcher function works on: be the
\* backend context, ctx the device, trace the device calls made so far by the
\* running operation, handle the value the function returned.

\* one device call made by the dispatcher: r is what the device operation gave
DevCalled(st, r) == [st EXCEPT !.ctx = r.ctx, !.trace = Append(@, r.call)]

\* revision 3 (lines 1242-1297): a cached pointer keeps its handle whatever the
\* size asked for
ggml_backend_npm_get_buffer_handle_ex(st, ptr, size, skip_cache, update_data) ==
    IF ~skip_cache /\ ptr \in DOMAIN st.be.buffer_handles
    THEN LET it == st.be.buffer_handles[ptr]
         IN IF update_data
            THEN Then(npm_device_emu_update_buffer(st.ctx, it.handle, ptr, size),
                      LAMBDA r : [DevCalled(st, r) EXCEPT !.handle = it.handle])
            ELSE [st EXCEPT !.handle = it.handle]
    ELSE Then(npm_device_emu_register_buffer(st.ctx, ptr, size, "none"), LAMBDA r :
             IF r.call.rc # 0
             THEN [DevCalled(st, r) EXCEPT !.handle = 0]
             ELSE [DevCalled(st, r) EXCEPT
                      !.handle = r.call.handle,
                      !.be.buffer_handles =
                          IF skip_cache THEN @
                          ELSE EmuPut(@, ptr, [handle |-> r.call.handle, size |-> size])])

\* revision 2 (lines 549-586): a cached pointer asked for with a larger size is
\* unregistered and registered anew
ggml_backend_npm_get_buffer_handle(st, ptr, size, update_data) ==
    LET cached == ptr \in DOMAIN st.be.buffer_handles
        it == st.be.buffer_handles[ptr]
        register(st1) ==
            Then(npm_device_emu_register_buffer(st1.ctx, ptr, size, "none"), LAMBDA r :
                IF r.call.rc # 0
                THEN [DevCalled(st1, r) EXCEPT !.handle = 0]
                ELSE [DevCalled(st1, r) EXCEPT
                         !.handle = r.call.handle,
                         !.be.buffer_handles =
                             EmuPut(@, ptr, [handle |-> r.call.handle, size |-> size])])
    IN IF cached /\ size > it.size
       THEN Then(npm_device_emu_unregister_buffer(st.ctx, it.handle, "none"),
                 LAMBDA r : register(DevCalled(st, r)))
       ELSE IF cached
       THEN IF update_data
            THEN Then(npm_device_emu_update_buffer(st.ctx, it.handle, ptr, size),
                      LAMBDA r : [DevCalled(st, r) EXCEPT !.handle = it.handle])
            ELSE [st EXCEPT !.handle = it.handle]
       ELSE register(st)

\* revision 3 (lines 1312-1360)
ggml_backend_npm_get_dequant_handle(st, ptr, size) ==
    LET register(st1) ==
            Then(npm_device_emu_register_buffer(st1.ctx, ptr, size, "none"), LAMBDA r :
                IF r.call.rc # 0
                THEN [DevCalled(st1, r) EXCEPT !.handle = 0]
                ELSE [DevCalled(st1, r) EXCEPT
                         !.handle = r.call.handle,
                         !.be.dequant_handle = r.call.handle,
                         !.be.dequant_handle_size = size])
        renew(st1) ==
            IF st1.be.dequant_handle # 0
            THEN Then(npm_device_emu_unregister_buffer(st1.ctx, st1.be.dequant_handle,
                                                       "none"),
                      LAMBDA r : register([DevCalled(st1, r) EXCEPT
                                              !.be.dequant_handle = 0,
                                              !.be.dequant_handle_size = 0]))
            ELSE register(st1)
    IN IF st.be.dequant_handle # 0 /\ st.be.dequant_handle_size >= size
       THEN Then(npm_device_emu_update_buffer(st.ctx, st.be.dequant_handle, ptr, size),
                 LAMBDA r : IF r.call.rc = 0
                            THEN [DevCalled(st, r) EXCEPT !.handle = st.be.dequant_handle]
                            ELSE renew(DevCalled(st, r)))
       ELSE renew(st)

\* one MUL_MAT node: src1 (activations) lives at host pointer 1, src0 (weights)
\* at 2, the dequantization buffer at 3 and dst at 4; t gives the byte sizes of
\* src1 and of the FP32 weights and whether src0 is quantized.  The result
\* carries the device call trace and, when the matmul was dispatched, what the
\* device held for each input at that moment next to what the host held
ggml_backend_npm_mul_mat(be, ctx, t) ==
    LET st0 == [be |-> be,
                ctx |-> IF t.quantized THEN [ctx EXCEPT !.host[3] = ctx.host[2]] ELSE ctx,
                trace |-> << >>, handle |-> 0]
        b_ptr == IF t.quantized THEN 3 ELSE 2
        get(st, ptr, size, update_data) ==
            IF be.rev = 2
            THEN ggml_backend_npm_get_buffer_handle(st, ptr, size, update_data)
            ELSE ggml_backend_npm_get_buffer_handle_ex(st, ptr, size, FALSE, update_data)
        get_a(st) == get(st, 1, t.a_size, TRUE)
        get_b(st) == IF t.quantized
                     THEN ggml_backend_npm_get_dequant_handle(st, 3, t.b_size)
                     ELSE get(st, 2, t.b_size, be.rev = 2)
        get_c(st) == get(st, 4, 64, FALSE)
        held(c, h, ptr, size) ==
            [handle |-> h, ptr |-> ptr, size |-> size, host |-> c.host[ptr],
             dev |-> IF h \in DOMAIN c.srv_buffers
                     THEN c.shm[c.srv_buffers[h].shm_offset] ELSE -1,
             dev_size |-> IF h \in DOMAIN c.srv_buffers
                          THEN c.srv_buffers[h].size ELSE 0]
        dispatch(st, a, b, c) ==
            IF a = 0 \/ b = 0 \/ c = 0
            THEN [be |-> st.be, ctx |-> st.ctx,
                  call |-> [op |-> "mul_mat", t |-> t, before |-> be.buffer_handles, trace |-> st.trace,
                            issued |-> FALSE]]
            ELSE Then(npm_device_emu_matmul(st.ctx, a, b, c, "none"), LAMBDA r :
                     [be |-> st.be, ctx |-> r.ctx,
                      call |-> [op |-> "mul_mat", t |-> t, before |-> be.buffer_handles,
                                trace |-> Append(st.trace, r.call), issued |-> TRUE,
                                a |-> held(st.ctx, a, 1, t.a_size),
                                b |-> held(st.ctx, b, b_ptr, t.b_size)]])
    IN IF be.rev = 2
       THEN Then(get_a(st0), LAMBDA sa :
            Then(get_c(sa), LAMBDA sc :
                IF sa.handle = 0 \/ sc.handle = 0
                THEN dispatch(sc, 0, 0, 0)
                ELSE Then(get_b(sc), LAMBDA sb :
                         dispatch(sb, sa.handle, sb.handle, sc.handle))))
       ELSE Then(get_a(st0), LAMBDA sa :
            Then(get_b(sa), LAMBDA sb :
            Then(get_c(sb), LAMBDA sc :
                dispatch(sc, sa.handle, sb.handle, sc.handle))))

NextDisp ==
    \/ \* ggml_backend_npm_graph_compute with one MUL_MAT node
       \E rev \in IF npm_backend.rev = 0 THEN {2, 3} ELSE {npm_backend.rev},
          a_size \in {64, 128}, b_size \in {64, 128}, quantized \in BOOLEAN :
       \E r \in { ggml_backend_npm_mul_mat(
                      [npm_backend EXCEPT !.rev = rev], emu_ctx,
                      [a_size |-> a_size, b_size |-> b_size, quantized |-> quantized]) } :
           /\ npm_backend.ops < MaxDispOps
           /\ rev = 2 => ~quantized
           /\ npm_backend' = [r.be EXCEPT !.ops = @ + 1, !.call = r.call]
           /\ emu_ctx' = r.ctx
           /\ UNCHANGED << server_vars, conn_vars, obs_vars, mock_vars, hier_vars,
                           tile_run, emu_call, solo >>
    \/ \* the application writes new data into a host tensor
       \E ptr \in 1..2 :
           /\ npm_backend.ops < MaxDispOps
           /\ emu_ctx' = [emu_ctx EXCEPT !.host[ptr] = 100 + npm_backend.ops]
           /\ npm_backend' = [npm_backend EXCEPT !.ops = @ + 1,
                                                 !.call = [op |-> "host_write"]]
           /\ UNCHANGED << server_vars, conn_vars, obs_vars, mock_vars, hier_vars,
                           tile_run, emu_call, solo >>

SpecDisp == Init /\ [][NextDisp]_vars

\* ------------------------------------------------------------------------
\* The accept loop of npm_emu_server_run with two clients at the listen socket
\* ------------------------------------------------------------------------
\* solo.accept_loop: pc and client_fd of the server (client_fd names the client
\* at the other end, 0 for -1); per client the state of its connection
\* ("idle", "pending" in the listen queue, "open" once accepted, "closed" by
\* the server), the messages it has sent that the server has not read, and
\* whether it has closed its end; backlog, the listen queue; log, what
\* happened, in order.  A message is "req", "goodbye" or "bad" (a header that
\* fails validation).

\* the loop reading from whichever connected client has sent something
NextAccept_any_client ==
    LET L == solo.accept_loop
        Log(l, ev, c) == [l EXCEPT !.log = Append(@, [ev |-> ev, c |-> c])]
        Step(l) == /\ Len(L.log) < MaxAcceptEvents
                   /\ solo' = [solo EXCEPT !.accept_loop = l]
                   /\ UNCHANGED << server_vars, conn_vars, obs_vars, mock_vars, hier_vars,
                                   tile_run, emu_vars, npm_backend >>
        close_client(l, c) == Log([l EXCEPT !.pc = "accept", !.client_fd = 0,
                                           !.cl[c].st = "closed", !.cl[c].q = << >>],
                                 "close", c)
    IN \/ \E c \in DOMAIN L.cl :
             /\ L.cl[c].st = "idle"
             /\ Len(L.backlog) < 1
             /\ Step(Log([L EXCEPT !.cl[c].st = "pending", !.backlog = Append(@, c)],
                         "connect", c))
       \/ \E c \in DOMAIN L.cl, m \in {"req", "goodbye", "bad"} :
             /\ L.cl[c].st \in {"pending", "open"}
             /\ ~L.cl[c].gone
             /\ Len(L.cl[c].q) < MaxQueue
             /\ Step(Log([L EXCEPT !.cl[c].q = Append(@, m)], "send", c))
       \/ \E c \in DOMAIN L.cl :
             /\ L.cl[c].st \in {"pending", "open"}
             /\ ~L.cl[c].gone
             /\ Step([L EXCEPT !.cl[c].gone = TRUE])
       \/ \* accept(listen_fd)
          /\ L.pc = "accept"
          /\ L.backlog # << >>
          /\ Step(Log([L EXCEPT !.pc = "serve", !.client_fd = Head(L.backlog),
                                !.backlog = Tail(@), !.cl[Head(L.backlog)].st = "open"],
                      "accept", Head(L.backlog)))
       \/ \* some connection has a header to read
          /\ L.pc = "serve"
          /\ \E c \in DOMAIN L.cl :
                /\ L.cl[c].st \in {"pending", "open"}
                /\ L.cl[c].q # << >>
                /\ LET took == Log([L EXCEPT !.cl[c].q = Tail(@)], Head(L.cl[c].q), c)
                   IN IF Head(L.cl[c].q) = "req"
                      THEN Step(took)
                      ELSE Step(close_client(took, L.client_fd))
       \/ \* recv_all fails: the client is gone
          /\ L.pc = "serve"
          /\ L.cl[L.client_fd].q = << >>
          /\ L.cl[L.client_fd].gone
          /\ Step(close_client(L, L.client_fd))

NextAccept ==
    LET L == solo.accept_loop
        Log(l, ev, c) == [l EXCEPT !.log = Append(@, [ev |-> ev, c |-> c])]
        Step(l) == /\ Len(L.log) < MaxAcceptEvents
                   /\ solo' = [solo EXCEPT !.accept_loop = l]
                   /\ UNCHANGED << server_vars, conn_vars, obs_vars, mock_vars, hier_vars,
                                   tile_run, emu_vars, npm_backend >>
        close_client(l, c) == Log([l EXCEPT !.pc = "accept", !.client_fd = 0,
                                           !.cl[c].st = "closed", !.cl[c].q = << >>],
                                 "close", c)
    IN \/ \* a client connects: it waits in the queue of listen(listen_fd, 1)
          \E c \in DOMAIN L.cl :
             /\ L.cl[c].st = "idle"
             /\ Len(L.backlog) < 1
             /\ Step(Log([L EXCEPT !.cl[c].st = "pending", !.backlog = Append(@, c)],
                         "connect", c))
       \/ \* a connected client sends a message, accepted yet or not
          \E c \in DOMAIN L.cl, m \in {"req", "goodbye", "bad"} :
             /\ L.cl[c].st \in {"pending", "open"}
             /\ ~L.cl[c].gone
             /\ Len(L.cl[c].q) < MaxQueue
             /\ Step(Log([L EXCEPT !.cl[c].q = Append(@, m)], "send", c))
       \/ \* a connected client closes its end
          \E c \in DOMAIN L.cl :
             /\ L.cl[c].st \in {"pending", "open"}
             /\ ~L.cl[c].gone
             /\ Step([L EXCEPT !.cl[c].gone = TRUE])
       \/ \* accept(listen_fd)
          /\ L.pc = "accept"
          /\ L.backlog # << >>
          /\ Step(Log([L EXCEPT !.pc = "serve", !.client_fd = Head(L.backlog),
                                !.backlog = Tail(@), !.cl[Head(L.backlog)].st = "open"],
                      "accept", Head(L.backlog)))
       \/ \* recv_all(client_fd) got a header: a handler runs, or GOODBYE or a
          \* header that fails validation ends the session
          /\ L.pc = "serve"
          /\ L.cl[L.client_fd].q # << >>
          /\ LET c == L.client_fd
                 took == Log([L EXCEPT !.cl[c].q = Tail(@)], Head(L.cl[c].q), c)
             IN IF Head(L.cl[c].q) = "req"
                THEN Step(took)
                ELSE Step(close_client(took, c))
       \/ \* recv_all fails: the client is gone
          /\ L.pc = "serve"
          /\ L.cl[L.client_fd].q = << >>
          /\ L.cl[L.client_fd].gone
          /\ Step(close_client(L, L.client_fd))

SpecAccept == Init /\ [][NextAccept]_vars

\* ------------------------------------------------------------------------
\* The bump allocator of a shared region on its own (npm-shm.h)
\* ------------------------------------------------------------------------
\* solo.shm: size and allocated of the region (size 0: not created yet), and
\* the latest call with its arguments, the mark it found and what it returned
NextShm ==
    LET R == solo.shm
        Step(r) == /\ R.ops < MaxShmOps
                   /\ solo' = [solo EXCEPT !.shm = [r EXCEPT !.ops = R.ops + 1]]
                   /\ UNCHANGED << server_vars, conn_vars, obs_vars, mock_vars, hier_vars,
                                   tile_run, emu_vars, npm_backend >>
    IN \/ \* npm_shm_create(size)
          /\ R.size = 0
          /\ \E size \in ShmRegionSizes :
                Step([R EXCEPT !.size = size, !.allocated = 0,
                               !.last = [op |-> "create", size |-> size, alignment |-> 0,
                                         w |-> 0, offset |-> 0]])
       \/ \* npm_shm_alloc(region, size, alignment)
          /\ R.size # 0
          /\ \E size \in ShmAllocSizes, alignment \in ShmAlignments :
                \E r \in {npm_shm_alloc(R.allocated, R.size, size, alignment)} :
                   Step([R EXCEPT !.allocated = r.allocated,
                                  !.last = [op |-> "alloc", size |-> size,
                                            alignment |-> alignment, w |-> R.allocated,
                                            offset |-> r.offset]])
       \/ \* npm_shm_reset(region)
          /\ R.size # 0
          /\ Step([R EXCEPT !.allocated = 0,
                            !.last = [op |-> "reset", size |-> 0, alignment |-> 0,
                                      w |-> R.allocated, offset |-> 0]])

SpecShm == Init /\ [][NextShm]_vars

\* ------------------------------------------------------------------------
\* What npm_emu_server_create acquires and npm_emu_server_destroy releases
\* ------------------------------------------------------------------------
\* solo.life: phase is "none" before npm_emu_server_create, "created" when it
\* returned a server, "failed" when it returned nullptr, "destroyed" after
\* npm_emu_server_destroy; in holds the configuration and the outcomes of the
\* calls that can fail; the other fields are the resources.
NextLife ==
    LET F == solo.life
        Step(f) == /\ solo' = [solo EXCEPT !.life = f]
                   /\ UNCHANGED << server_vars, conn_vars, obs_vars, mock_vars, hier_vars,
                                   tile_run, emu_vars, npm_backend >>
        \* npm_trace_create: calloc, owns_file stays false
        traced(in) ==
            [F EXCEPT !.in = in, !.server = "live",
                      !.trace_file = IF in.trace_file /\ in.fopen_ok THEN "open" ELSE "none",
                      !.trace_ctx = IF in.calloc_ok THEN "live" ELSE "none",
                      !.owns_file = FALSE]
        \* delete server; return nullptr
        failed(f) == [f EXCEPT !.server = "deleted", !.phase = "failed"]
        create(in) ==
            IF ~in.sku_ok THEN failed(traced(in))
            ELSE IF ~in.socket_ok THEN failed(traced(in))
            ELSE IF ~in.bind_ok THEN failed([traced(in) EXCEPT !.listen_fd = "closed"])
            ELSE IF ~in.listen_ok
                 THEN failed([traced(in) EXCEPT !.listen_fd = "closed",
                                                !.socket_path = "unlinked"])
            ELSE [traced(in) EXCEPT !.listen_fd = "open", !.socket_path = "bound",
                                    !.phase = "created"]
        \* npm_trace_destroy: fclose only when owns_file
        npm_trace_destroy(f) ==
            IF f.trace_ctx # "live" THEN f
            ELSE [f EXCEPT !.trace_ctx = "freed",
                           !.trace_file = IF f.owns_file /\ f.trace_file = "open"
                                          THEN "closed" ELSE @]
    IN \/ \* npm_emu_server_create(config)
          /\ F.phase = "none"
          /\ \E in \in [trace_file : BOOLEAN, fopen_ok : BOOLEAN, calloc_ok : BOOLEAN,
                        sku_ok : BOOLEAN, socket_ok : BOOLEAN, bind_ok : BOOLEAN,
                        listen_ok : BOOLEAN] :
                Step(create(in))
       \/ \* npm_emu_server_run: a client is accepted and may have its region mapped
          /\ F.phase = "created"
          /\ F.client_fd = "none"
          /\ \E hello \in BOOLEAN :
                Step([F EXCEPT !.client_fd = "open",
                               !.shm = IF hello THEN "mapped" ELSE @])
       \/ \* npm_emu_server_run: client_done
          /\ F.phase = "created"
          /\ F.client_fd = "open"
          /\ Step([F EXCEPT !.client_fd = "closed"])
       \/ \* npm_emu_server_destroy(server)
          /\ F.phase = "created"
          /\ Step(npm_trace_destroy(
                    [F EXCEPT !.phase = "destroyed", !.server = "deleted",
                              !.client_fd = IF @ = "open" THEN "closed" ELSE @,
                              !.listen_fd = "closed", !.socket_path = "unlinked",
                              !.shm = IF @ = "mapped" THEN "unmapped" ELSE @]))

SpecLife == Init /\ [][NextLife]_vars

\* ------------------------------------------------------------------------
\* main: command line and config file to the configuration the server runs with
\* ------------------------------------------------------------------------
\* solo.main: phase "none" before main, "parsed" when the configuration is
\* complete, "served" when the server created from it has answered a HELLO;
\* cli and file are what the command line and the config file gave ("" and
\* << >>: not given; file.given: --config was passed; file.loaded:
\* npm_config_load succeeded); config is npm_emu_config, hello the reply.
\* Strings that are parsed are sequences of characters.
NextMain ==
    LET M == solo.main
        Step(m) == /\ solo' = [solo EXCEPT !.main = m]
                   /\ UNCHANGED << server_vars, conn_vars, obs_vars, mock_vars, hier_vars,
                                   tile_run, emu_vars, npm_backend >>
        \* str[i] of a C string: the terminating NUL reads as ""
        At(str, i) == IF i < Len(str) THEN str[i + 1] ELSE ""
        npm_sku_from_string(str) ==
            IF At(str, 0) \in {"N", "n"}
            THEN IF At(str, 3) = "4" \/ At(str, 4) = "4" THEN 0
                 ELSE IF At(str, 3) = "8" \/ At(str, 4) = "8" THEN NPM_SKU_8K
                 ELSE IF At(str, 3) = "1" \/ At(str, 4) = "1" THEN 2
                 ELSE IF At(str, 3) = "3" \/ At(str, 4) = "3" THEN 3
                 ELSE IF At(str, 3) = "6" \/ At(str, 4) = "6" THEN NPM_SKU_64K
                 ELSE NPM_SKU_8K
            ELSE IF At(str, 0) = "4" THEN 0
                 ELSE IF At(str, 0) = "8" THEN NPM_SKU_8K
                 ELSE IF At(str, 0) = "1" THEN 2
                 ELSE IF At(str, 0) = "3" THEN 3
                 ELSE IF At(str, 0) = "6" THEN NPM_SKU_64K
                 ELSE NPM_SKU_8K
        \* the getopt loop: config after the command line
        parsed(cli) ==
            [socket_path |-> IF cli.socket # "" THEN cli.socket ELSE DefaultSocket,
             sku |-> IF cli.sku # << >> THEN npm_sku_from_string(cli.sku) ELSE NPM_SKU_8K,
             l2_size |-> cli.l2_mb * MiB,
             trace_categories |-> IF "A" \in cli.trace THEN TraceAll
                                  ELSE { TraceBit[o] : o \in cli.trace }]
        \* npm_config(): defaults, then the keys of the file
        npm_config_load(file) ==
            [sku |-> IF file.sku # << >> THEN npm_sku_from_string(file.sku) ELSE NPM_SKU_8K,
             l2_size_mb |-> 8,
             socket_path |-> IF file.socket # "" THEN file.socket ELSE DefaultSocket,
             trace_commands |-> file.trace_commands,
             trace_dma |-> file.trace_dma]
        \* if (config_file) { if (npm_config_load(...)) { ... } }
        merged(cfg, file_config) ==
            [cfg EXCEPT
               !.sku = file_config.sku,
               !.l2_size = IF @ = 0 THEN file_config.l2_size_mb * MiB ELSE @,
               !.socket_path = file_config.socket_path,
               !.trace_categories =
                   IF @ = {} THEN (IF file_config.trace_commands THEN {"commands"} ELSE {})
                                  \cup (IF file_config.trace_dma THEN {"dma"} ELSE {})
                   ELSE @]
        \* npm_emu_server_create, then handle_hello's reply
        hello_rsp(cfg) ==
            LET sku_config == npm_get_sku_config(cfg.sku)
            IN [sku |-> cfg.sku,
                num_engines |-> sku_config.num_engines,
                l1_size |-> sku_config.l1_size,
                l2_size |-> IF cfg.l2_size > 0 THEN cfg.l2_size
                            ELSE sku_config.l2_size_default]
    IN \/ \* main up to npm_emu_server_create
          /\ M.phase = "none"
          /\ \E cli \in [socket : {"", "/tmp/cli.sock"}, sku : {<< >>} \cup SkuNames,
                         l2_mb : {0, 16}, trace : {{}, {"C"}, {"D"}, {"A"}}],
                file \in [given : BOOLEAN, loaded : BOOLEAN, socket : {"", "/tmp/file.sock"},
                          sku : {<< >>} \cup SkuNames, trace_commands : BOOLEAN,
                          trace_dma : BOOLEAN] :
                /\ file.loaded => file.given
                /\ ~file.loaded => /\ file.socket = "" /\ file.sku = << >>
                                   /\ ~file.trace_commands /\ ~file.trace_dma
                /\ Step([M EXCEPT !.phase = "parsed", !.cli = cli, !.file = file,
                                  !.config = IF file.loaded
                                             THEN merged(parsed(cli), npm_config_load(file))
                                             ELSE parsed(cli)])
       \/ \* npm_emu_server_create, npm_emu_server_run, a client's HELLO
          /\ M.phase = "parsed"
          /\ Step([M EXCEPT !.phase = "served", !.hello = hello_rsp(M.config)])

SpecMain == Init /\ [][NextMain]_vars

Next ==
    \/ ClientConnect
    \/ ClientSend
    \/ ClientSendBadHeader
    \/ ClientSendShort
    \/ ClientClose
    \/ Accept
    \/ RecvHeaderFails
    \/ InvalidHeader
    \/ UnknownCommand
    \/ handle_hello
    \/ handle_goodbye
    \/ handle_ping
    \/ handle_register_buffer
    \/ handle_unregister_buffer
    \/ handle_matmul
    \/ handle_sync
    \/ handle_fence_create
    \/ handle_fence_destroy
    \/ handle_fence_wait
    \/ npm_emu_server_shutdown
    \/ LeaveSession
    \/ LeaveRun
    \/ npm_emu_server_destroy

Spec == Init /\ [][Next]_vars

\* the steps of the server process itself.  The process is scheduled for as
\* long as it can run, so a step of it that stays possible is eventually
\* taken; nothing makes a client connect or send, or a signal arrive
ServerRuns ==
    \/ Accept \/ RecvHeaderFails \/ InvalidHeader \/ UnknownCommand
    \/ handle_hello \/ handle_goodbye \/ handle_ping
    \/ handle_register_buffer \/ handle_unregister_buffer \/ handle_matmul
    \/ handle_sync \/ handle_fence_create \/ handle_fence_destroy \/ handle_fence_wait
    \/ LeaveSession \/ LeaveRun \/ npm_emu_server_destroy

SpecLive == Spec /\ WF_vars(ServerRuns)


\* ------------------------------------------------------------------------
\* Properties
\* ------------------------------------------------------------------------
\* the server took the request at the head of the connection in this step
ServerTook == Len(inq') < Len(inq)

\* (handle, offset) names no byte of a registered buffer
Missing(handle, offset) ==
    \/ handle \notin DOMAIN buffers
    \/ offset >= buffers[handle].size

BadOperand(req) ==
    \/ Missing(req.a_handle, req.a_offset)
    \/ Missing(req.b_handle, req.b_offset)
    \/ Missing(req.c_handle, req.c_offset)

\* C1: on a connection, the responses sent so far are, in order and seq_id by
\* seq_id, the requests with a valid header and a handled command that the
\* server has received in full: exactly one response per such request.
C1_OneResponsePerRequest == sent = handled

\* C2: when the server takes a valid header whose cmd is not a handled command,
\* it closes the connection without a reply and drops what follows on it.
C2_UnknownCmdClosesConnection ==
    [][ ( /\ GotHeader
          /\ npm_emu_header_validate(Head(inq)) = 0
          /\ Head(inq).cmd \notin HandledCmds
          /\ ServerTook )
        => ( /\ client_fd' = -1
             /\ conn' = "closed"
             /\ inq' = <<>>
             /\ sent' = sent ) ]_vars

\* C3: a MATMUL with an operand whose handle is not registered, or whose offset
\* is >= the registered size, is answered INVALID_HANDLE; nothing is read or
\* written in shared memory and total_matmul_ops keeps its value.
C3_InvalidOperandRejected ==
    [][ ( /\ Dispatched(NPM_EMU_CMD_MATMUL)
          /\ Head(inq).full
          /\ BadOperand(Head(inq).p)
          /\ ServerTook )
        => ( /\ last_rsp' = npm_emu_header_init(NPM_EMU_CMD_MATMUL, Head(inq).seq_id,
                                                NPM_EMU_STATUS_INVALID_HANDLE)
             /\ sent' = Append(sent, Head(inq).seq_id)
             /\ mem_access' = NoAccess
             /\ total_matmul_ops' = total_matmul_ops
             /\ pc' = pc ) ]_vars

\* a MATMUL was refused because an operand's offset equals the size of its
\* registered buffer
C3_Witness ==
    /\ last_matmul.status = NPM_EMU_STATUS_INVALID_HANDLE
    /\ last_rsp.status = NPM_EMU_STATUS_INVALID_HANDLE
    /\ \E o \in { <<last_matmul.req.a_handle, last_matmul.req.a_offset>>,
                  <<last_matmul.req.b_handle, last_matmul.req.b_offset>>,
                  <<last_matmul.req.c_handle, last_matmul.req.c_offset>> } :
           /\ o[1] \in DOMAIN buffers
           /\ o[2] = buffers[o[1]].size

\* the bytes of an operand lie in the registered extent of its buffer, from the
\* operand's offset on, and in the attached region
WithinBuffer(handle, offset, iv) ==
    \/ iv = <<0, 0>>
    \/ /\ handle \in DOMAIN buffers
       /\ shm_base # 0
       /\ shm_base \in mappings
       /\ shm_base + buffers[handle].shm_offset + offset <= iv[1]
       /\ iv[2] <= shm_base + buffers[handle].shm_offset + buffers[handle].size
       /\ buffers[handle].shm_offset + buffers[handle].size <= shm_size

\* C4: what an executed MATMUL reads for A and B and writes for C lies within
\* the registered extent of the named buffer and within the attached region;
\* with no region attached no operand memory is accessed.
C4_AccessWithinBounds ==
    last_matmul.status = NPM_EMU_STATUS_OK =>
        /\ WithinBuffer(last_matmul.req.a_handle, last_matmul.req.a_offset, mem_access.a)
        /\ WithinBuffer(last_matmul.req.b_handle, last_matmul.req.b_offset, mem_access.b)
        /\ WithinBuffer(last_matmul.req.c_handle, last_matmul.req.c_offset, mem_access.c)

\* offsets around the ends of a buffer of the given size
ProbeOffsets(size) == { o \in {0, 1, size - 1, size, size + 1} : o >= 0 }

\* C5: for a registered buffer (h, s), resolving (h, o) with 0 <= o < s gives
\* shm_base + shm_offset + o; resolving with o >= s, or with a handle that is
\* not registered, gives nullptr; handle 0 is never registered.
C5_ResolveHandle ==
    /\ 0 \notin DOMAIN buffers
    /\ \A h \in DOMAIN buffers : \A o \in ProbeOffsets(buffers[h].size) :
           resolve_handle(buffers, shm_base, h, o) =
               IF o < buffers[h].size THEN shm_base + buffers[h].shm_offset + o ELSE 0
    /\ \A h \in (ReqHandles \cup {next_handle}) \ DOMAIN buffers :
           \A o \in ProbeOffsets(SizeofFloat) : resolve_handle(buffers, shm_base, h, o) = 0

\* two buffers are registered in an attached region, one of them not at its start
C5_Witness ==
    /\ shm_base # 0
    /\ Cardinality(DOMAIN buffers) = 2
    /\ \E h \in DOMAIN buffers : buffers[h].shm_offset > 0

\* (handle, offset) names no byte of a buffer registered with the mock
MockMissing(handle, offset) ==
    \/ handle \notin DOMAIN mock_buffers
    \/ offset >= mock_buffers[handle].size

\* C6: a mock matmul naming an unknown handle, or an offset >= the registered
\* size of its buffer, returns an error and touches no operand memory.
C6_MockRejectsMissing ==
    ( /\ mock_call.op = "matmul"
      /\ \/ MockMissing(mock_call.params.a_handle, mock_call.params.a_offset)
         \/ MockMissing(mock_call.params.b_handle, mock_call.params.b_offset)
         \/ MockMissing(mock_call.params.c_handle, mock_call.params.c_offset) )
    => ( /\ mock_rc < 0
         /\ mock_access = NoAccess
         /\ ~mock_crashed )

\* C7: the k-th REGISTER_BUFFER the server handles returns handle k, so every
\* handle is non-zero and none is returned twice, across unregistrations,
\* GOODBYEs and reconnects.
C7_HandlesSequential ==
    /\ \A k \in 1..Len(issued) : issued[k] = k
    /\ last_rsp.cmd = NPM_EMU_CMD_REGISTER_BUFFER =>
           /\ last_rsp.handle = Len(issued)
           /\ last_rsp.handle # 0

\* a second registration on a second connection, after the first handle has
\* left the registry
C7_Witness ==
    /\ Len(issued) = 2
    /\ nconn = 2
    /\ DOMAIN buffers = {2}
    /\ last_rsp.cmd = NPM_EMU_CMD_REGISTER_BUFFER

\* C8: handling GOODBYE unmaps the shared memory, empties the registry, replies
\* OK and closes the connection; nothing sent after it on the connection is
\* processed.
C8_GoodbyeEndsSession ==
    [][ (Dispatched(NPM_EMU_CMD_GOODBYE) /\ ServerTook)
        => ( /\ shm_base' = 0
             /\ shm_base \notin mappings'
             /\ buffers' = EmptyMap
             /\ last_rsp' = npm_emu_header_init(NPM_EMU_CMD_GOODBYE, Head(inq).seq_id,
                                                NPM_EMU_STATUS_OK)
             /\ sent' = Append(sent, Head(inq).seq_id)
             /\ client_fd' = -1
             /\ conn' = "closed"
             /\ inq' = <<>>
             /\ pc' = "accept" ) ]_vars

\* a GOODBYE was answered on a connection that had attached shared memory and
\* registered a buffer
C8_Witness ==
    /\ last_rsp.cmd = NPM_EMU_CMD_GOODBYE
    /\ Len(sent) = 3
    /\ issued # <<>>
    /\ mappings = {}
    /\ buffers = EmptyMap
    /\ client_fd = -1

\* C9: when no session is open (the server is back in accept), it holds no
\* mapping of a client's shared memory.
C9_NoMappingAfterSession ==
    (pc = "accept" /\ client_fd = -1) => (shm_base = 0 /\ mappings = {})

\* C10: with tiling and timing enabled, a 128x128x128 MATMUL on operands inside
\* their buffers that repeats the one executed just before it records
\* l2_hits > 0 and replies with fewer dma_bytes than the first one did.
C10_SecondRunReusesL2 ==
    ( /\ config.tiling_enabled
      /\ config.timing_enabled
      /\ last_matmul.status = NPM_EMU_STATUS_OK
      /\ last_matmul.req.M = 128
      /\ WithinBuffer(last_matmul.req.a_handle, last_matmul.req.a_offset, mem_access.a)
      /\ WithinBuffer(last_matmul.req.b_handle, last_matmul.req.b_offset, mem_access.b)
      /\ WithinBuffer(last_matmul.req.c_handle, last_matmul.req.c_offset, mem_access.c)
      /\ first_dma_bytes >= 0 )
    => ( /\ mem_hierarchy.l2_hits > 0
         /\ last_matmul.dma_bytes < first_dma_bytes )

\* C11: every MATMUL completed in tiled mode is answered with
\* dma_bytes >= M*N*sizeof(float) and cycles >= 1, whatever the rest of the
\* configuration (timing on or off).
C11_TiledReplyTotals ==
    ( /\ config.tiling_enabled
      /\ last_matmul.status = NPM_EMU_STATUS_OK )
    => ( /\ last_matmul.dma_bytes
               >= last_matmul.req.M * last_matmul.req.N * SizeofFloat
         /\ last_matmul.cycles >= 1 )

RECURSIVE SumSizes(_)
SumSizes(blocks) ==
    IF blocks = <<>> THEN 0 ELSE Head(blocks).size + SumSizes(Tail(blocks))

\* C12: after every call on the hierarchy, in L2 and in every L1 the sizes of
\* the live blocks add up to at most the capacity of the tier, whatever the
\* sequence of stage calls and the sizes asked for.
C12_TierWithinCapacity ==
    /\ SumSizes(hier.l2_model.blocks) <= hier.l2_model.capacity
    /\ \A e \in DOMAIN hier.l1_models :
           SumSizes(hier.l1_models[e].blocks) <= hier.l1_models[e].capacity

\* position of the latest touch of the key in a tier's touch order, 0 if none
Recency(touches, key) ==
    LET at == { i \in 1..Len(touches) : touches[i] = key }
    IN IF at = {} THEN 0 ELSE CHOOSE i \in at : \A j \in at : j <= i

BlockKey(b) == << b.handle, b.offset >>

\* among the live blocks the order of last_access is the order of the touches
StampsFollowTouches(blocks, touches) ==
    \A i, j \in 1..Len(blocks) :
        (blocks[i].last_access < blocks[j].last_access)
            <=> (Recency(touches, BlockKey(blocks[i])) < Recency(touches, BlockKey(blocks[j])))

\* every block a step removes was stamped, and touched, before every block the
\* step keeps
EvictsLeastRecent(before, after, touches) ==
    \A i, j \in 1..Len(before) :
        ( /\ ~Live(after, BlockKey(before[i]))
          /\ Live(after, BlockKey(before[j])) )
        => ( /\ before[i].last_access < before[j].last_access
             /\ Recency(touches, BlockKey(before[i]))
                    < Recency(touches, BlockKey(before[j])) )

\* C13: a block evicted from a tier is the live block of that tier with the
\* smallest last_access when it is evicted, that is the least recently touched
\* one: among the live blocks of a tier, the order of last_access is the order
\* in which they were last inserted or hit.
C13_EvictionIsLru ==
    /\ [](/\ StampsFollowTouches(hier.l2_model.blocks, hier_touch.l2)
          /\ StampsFollowTouches(hier.l1_models[0].blocks, hier_touch.l1))
    /\ [][/\ EvictsLeastRecent(hier.l2_model.blocks, hier'.l2_model.blocks, hier_touch.l2)
          /\ EvictsLeastRecent(hier.l1_models[0].blocks, hier'.l1_models[0].blocks,
                               hier_touch.l1)]_vars

\* two insertions, a hit on the older one, and a third insertion that evicts
\* the block inserted second
C13_Witness ==
    /\ Len(hier_touch.l2) = 4
    /\ hier_touch.l2[1] = hier_touch.l2[3]
    /\ hier_touch.l2[2] # hier_touch.l2[1]
    /\ Live(hier.l2_model.blocks, hier_touch.l2[1])
    /\ Live(hier.l2_model.blocks, hier_touch.l2[4])
    /\ ~Live(hier.l2_model.blocks, hier_touch.l2[2])
    /\ Len(hier.l2_model.blocks) = 2

\* the latest call was a stage call that hit or inserted a block
Staged ==
    /\ hier_op.op \in {"stage_to_l2", "stage_to_l1"}
    /\ hier_op.ret # -1

\* C14 (as stated): within one hierarchy instance every stage call that hits
\* or inserts stamps last_access with a value strictly greater than every
\* value stamped earlier on that instance.
C14_StampsGrowOverInstance ==
    Staged => hier_op.stamp > hier_op.max_ever

\* C14 (amended): every stage call that hits or inserts stamps last_access
\* with a value strictly greater than every value stamped on that instance
\* since its construction or its latest reset().
C14_StampsGrowSinceReset ==
    Staged => hier_op.stamp > hier_op.max_epoch

\* a stage call that follows a reset() and gets a stamp that was given out
\* before the reset
C14_Witness ==
    /\ Staged
    /\ hier_op.max_epoch < hier_op.max_ever
    /\ hier_op.stamp <= hier_op.max_ever

\* C15: stage_to_l2 on a (handle, offset) whose block is live in L2 counts a
\* hit (l2_hits one more, l2_misses unchanged), copies no bytes, and returns
\* the L2 slot that the call which inserted the block returned; this holds
\* for every later call as long as the block has not been evicted.
C15_L2HitSameSlot ==
    ( /\ hier_op.op = "stage_to_l2"
      /\ hier_op.live )
    => ( /\ hier_op.d_hits = 1
         /\ hier_op.d_misses = 0
         /\ hier_op.d_bytes = 0
         /\ hier_op.ret = hier_slot[hier_op.key]
         /\ hier_op.ret # -1 )

\* a second hit on a block that was inserted after another one, so that its
\* slot is not the start of the tier
C15_Witness ==
    /\ hier_op.op = "stage_to_l2"
    /\ hier_op.live
    /\ hier.l2_hits = 2
    /\ hier_op.ret = 4

\* C16: after every call on the hierarchy, every live L1 block has a live L2
\* block with the same (handle, offset).
C16_L2InclusiveOfL1 ==
    \A e \in DOMAIN hier.l1_models :
        \A i \in 1..Len(hier.l1_models[e].blocks) :
            Live(hier.l2_model.blocks, BlockKey(hier.l1_models[e].blocks[i]))

\* entry i of the log is a transfer of this type and size
IsDma(log, i, type, bytes) ==
    /\ i \in 1..Len(log)
    /\ log[i].ev = "dma"
    /\ log[i].type = type
    /\ log[i].bytes = bytes

\* the "stage_to_l2" entries between the entry before i that is a "zero" or an
\* "acc" and entry i
StagesBefore(log, i) ==
    LET p == CHOOSE q \in 1..(i - 1) :
                 /\ log[q].ev \in {"zero", "acc"}
                 /\ \A r \in (q + 1)..(i - 1) : log[r].ev \notin {"zero", "acc"}
    IN SelectSeq(SubSeq(log, p + 1, i - 1), LAMBDA e : e.ev = "stage_to_l2")

\* C17: in a tiled run, in every (m_tile, n_tile, k_tile) step the A tile and
\* then the B tile are staged; each staging issues a DDR -> L2 transfer of the
\* tile's bytes exactly when the tile was absent from L2, and always an
\* L2 -> L1 transfer of the tile's bytes; after the last K step of every
\* (m_tile, n_tile) an L1 -> L2 and then an L2 -> DDR transfer of the C
\* sub-tile's bytes are issued, and no other transfers are made.
C17_DmaPerTileStep ==
    tile_run.mode = "tiled" =>
    LET log == tile_run.log
        req == tile_run.req
    IN \A i \in 1..Len(log) :
        /\ log[i].ev = "stage_to_l2" =>
              /\ log[i].absent <=> IsDma(log, i + 1, NPM_DMA_DDR_TO_L2, log[i].bytes)
              /\ IsDma(log, IF log[i].absent THEN i + 2 ELSE i + 1,
                       NPM_DMA_L2_TO_L1, log[i].bytes)
        /\ log[i].ev = "acc" =>
              /\ StagesBefore(log, i)
                    = << [handle |-> req.a_handle,
                          offset |-> (log[i].m0 * req.lda + log[i].k0) * SizeofFloat,
                          ev |-> "stage_to_l2",
                          bytes |-> log[i].mc * log[i].kc * SizeofFloat,
                          absent |-> StagesBefore(log, i)[1].absent],
                         [handle |-> req.b_handle,
                          offset |-> (log[i].n0 * req.ldb + log[i].k0) * SizeofFloat,
                          ev |-> "stage_to_l2",
                          bytes |-> log[i].nc * log[i].kc * SizeofFloat,
                          absent |-> StagesBefore(log, i)[2].absent] >>
              /\ log[i].k0 + log[i].kc = req.K =>
                    /\ IsDma(log, i + 1, NPM_DMA_L1_TO_L2,
                             log[i].mc * log[i].nc * SizeofFloat)
                    /\ IsDma(log, i + 2, NPM_DMA_L2_TO_DDR,
                             log[i].mc * log[i].nc * SizeofFloat)
        /\ log[i].ev = "dma" =>
              \/ /\ log[i].type = NPM_DMA_DDR_TO_L2
                 /\ log[i - 1].ev = "stage_to_l2"
              \/ /\ log[i].type = NPM_DMA_L2_TO_L1
                 /\ \/ log[i - 1].ev = "stage_to_l2"
                    \/ log[i - 2].ev = "stage_to_l2"
              \/ /\ log[i].type = NPM_DMA_L1_TO_L2
                 /\ log[i - 1].ev = "acc"
                 /\ log[i - 1].k0 + log[i - 1].kc = req.K
              \/ /\ log[i].type = NPM_DMA_L2_TO_DDR
                 /\ log[i - 1].ev = "dma"
                 /\ log[i - 1].type = NPM_DMA_L1_TO_L2

\* a tiled run of more than one K step in which one staging found its tile in
\* L2 and another did not
C17_Witness ==
    /\ tile_run.mode = "tiled"
    /\ tile_run.req.K = 257
    /\ \E i, j \in 1..Len(tile_run.log) :
          /\ tile_run.log[i].ev = "stage_to_l2"
          /\ tile_run.log[j].ev = "stage_to_l2"
          /\ tile_run.log[i].absent
          /\ ~tile_run.log[j].absent

\* the entries of the log that write element (m, n) of C
WritesOf(log, m, n) ==
    SelectSeq(log, LAMBDA e : /\ e.ev \in {"zero", "acc", "assign"}
                              /\ e.m0 <= m /\ m < e.m0 + e.mc
                              /\ e.n0 <= n /\ n < e.n0 + e.nc)

\* the writes of one element add up the products of k = 0, ..., K - 1 once
\* each: either one assignment of the whole sum, or a zero followed by partial
\* sums over k-ranges that follow one another from 0 to K
SumsEveryK(w, K) ==
    /\ w # << >>
    /\ \/ /\ Len(w) = 1
          /\ w[1].ev = "assign" /\ w[1].k0 = 0 /\ w[1].kc = K
       \/ /\ Len(w) >= 2
          /\ w[1].ev = "zero"
          /\ \A i \in 2..Len(w) :
                /\ w[i].ev = "acc"
                /\ w[i].kc >= 1
                /\ w[i].k0 = IF i = 2 THEN 0 ELSE w[i - 1].k0 + w[i - 1].kc
          /\ w[Len(w)].k0 + w[Len(w)].kc = K

\* C18: for M, N, K >= 1, a single row and sizes that are no multiple of the
\* tile size included, the tiled loops write exactly the elements C[m*ldc+n]
\* with 0 <= m < M, 0 <= n < N, each receiving the sum over k in [0, K) of
\* A[m*lda+k] * B[n*ldb+k], as the simple loops and the mock's loops do; every
\* tile extent of the tiled loops is min(tile size, remaining).
C18_TiledEqualsSimple ==
    tile_run.mode # "none" =>
    LET log == tile_run.log
        req == tile_run.req
        T == calculate_tile_size(l1_size)
    IN /\ \A m \in 0..(req.M - 1), n \in 0..(req.N - 1) :
              SumsEveryK(WritesOf(log, m, n), req.K)
       /\ \A i \in 1..Len(log) :
              log[i].ev \in {"zero", "acc", "assign"} =>
                  /\ 0 <= log[i].m0 /\ log[i].mc >= 1 /\ log[i].m0 + log[i].mc <= req.M
                  /\ 0 <= log[i].n0 /\ log[i].nc >= 1 /\ log[i].n0 + log[i].nc <= req.N
                  /\ tile_run.mode = "tiled" =>
                        /\ log[i].mc = IF T <= req.M - log[i].m0 THEN T
                                       ELSE req.M - log[i].m0
                        /\ log[i].nc = IF T <= req.N - log[i].n0 THEN T
                                       ELSE req.N - log[i].n0
                        /\ log[i].ev = "acc" =>
                              log[i].kc = IF T <= req.K - log[i].k0 THEN T
                                          ELSE req.K - log[i].k0

\* a tiled run with a trailing tile of one row, one column and one k-step
C18_Witness ==
    /\ tile_run.mode = "tiled"
    /\ tile_run.req.M = 257 /\ tile_run.req.N = 257 /\ tile_run.req.K = 257
    /\ \E i \in 1..Len(tile_run.log) :
          /\ tile_run.log[i].ev = "acc"
          /\ tile_run.log[i].mc = 1 /\ tile_run.log[i].nc = 1 /\ tile_run.log[i].kc = 1

\* C19: a compute request with M, N or K <= 0, or with an element type other
\* than FP32 on one of the three operands, is rejected and writes no output;
\* stated here for the mock device, which rejects with a negative return code.
C19_InvalidParamsRejected ==
    ( /\ mock_call.op = "matmul"
      /\ ~mock_crashed
      /\ \/ mock_call.params.M <= 0
         \/ mock_call.params.N <= 0
         \/ mock_call.params.K <= 0
         \/ mock_call.params.type_a # GGML_TYPE_F32
         \/ mock_call.params.type_b # GGML_TYPE_F32
         \/ mock_call.params.type_c # GGML_TYPE_F32 )
    => ( /\ mock_rc < 0
         /\ mock_access.c = <<0, 0>> )

\* ------------------------------------------------------------------------
\* C20: on the IPC client, when matmul returns success the host buffer that
\* was registered under c_handle holds the output the server wrote into
\* shared memory; when the server's status is not OK or the exchange fails,
\* matmul returns an error and the host buffers are as they were before
\* ------------------------------------------------------------------------
C20_MatmulCopiesOutput ==
    emu_call.op = "matmul" =>
    /\ emu_call.rc = 0 =>
          /\ emu_call.output # 0
          /\ emu_call.c_handle \in DOMAIN emu_ctx.host_of =>
                emu_ctx.host[emu_ctx.host_of[emu_call.c_handle]] = emu_call.output
    /\ (~emu_call.received \/ emu_call.status # NPM_EMU_STATUS_OK) =>
          /\ emu_call.rc # 0
          /\ emu_ctx.host = emu_call.host_before


\* ------------------------------------------------------------------------
\* C21: update_buffer with a size greater than the size the handle was
\* registered with returns an error and leaves the registration of the handle
\* and the device-visible bytes as they were (stated here for the mock; the
\* IPC client's half is C21_ClientRejectsOversize)
\* ------------------------------------------------------------------------
C21_OversizeUpdateRejected ==
    [][ (/\ mock_call'.op = "update_buffer"
         /\ mock_call'.handle \in DOMAIN mock_buffers
         /\ mock_call'.size > mock_buffers[mock_call'.handle].size)
        => (mock_rc' # 0 /\ mock_buffers' = mock_buffers) ]_vars

C21_ClientRejectsOversize ==
    (/\ emu_call.op = "update"
     /\ \E p \in DOMAIN emu_call.buffers_before :
           /\ emu_call.buffers_before[p].handle = emu_call.handle
           /\ emu_call.size > emu_call.buffers_before[p].size)
    => /\ emu_call.rc # 0
       /\ emu_ctx.shm = emu_call.shm_before
       /\ emu_ctx.buffers = emu_call.buffers_before

\* ------------------------------------------------------------------------
\* C22: whenever the dispatcher issues a matmul to the device, the bytes the
\* device holds for the activations and for the weights are the bytes the
\* host holds for them at that moment, whatever was written to the host
\* tensors between graph computations
\* ------------------------------------------------------------------------
C22_InputsCurrentAtMatmul ==
    (npm_backend.call.op = "mul_mat" /\ npm_backend.call.issued) =>
        /\ npm_backend.call.a.dev = npm_backend.call.a.host
        /\ npm_backend.call.b.dev = npm_backend.call.b.host

\* ------------------------------------------------------------------------
\* C23: when the dispatcher needs the handle of a host pointer that is cached
\* with a smaller size than the size now asked for, it unregisters the old
\* handle and then registers the pointer with the larger size, before any
\* matmul is dispatched.  Stated for the activations, whose handle is asked
\* for first in every MUL_MAT, and for the FP32 weights when the MUL_MAT got as
\* far as dispatching
\* ------------------------------------------------------------------------
C23_Grown ==
    LET call == npm_backend.call
    IN { o \in { <<1, call.t.a_size>> } \cup
               (IF call.issued /\ ~call.t.quantized THEN { <<2, call.t.b_size>> } ELSE {}) :
            /\ o[1] \in DOMAIN call.before
            /\ call.before[o[1]].size < o[2] }

C23_LargerSizeReregisters ==
    npm_backend.call.op = "mul_mat" =>
    LET call == npm_backend.call
    IN \A o \in C23_Grown :
          \E i, j \in 1..Len(call.trace) :
             /\ i < j
             /\ call.trace[i].op = "unregister"
             /\ call.trace[i].handle = call.before[o[1]].handle
             /\ call.trace[j].op = "register"
             /\ call.trace[j].ptr = o[1]
             /\ call.trace[j].size = o[2]
             /\ \A k \in 1..Len(call.trace) : call.trace[k].op = "matmul" => j < k

\* ------------------------------------------------------------------------
\* C24: register_buffer(ptr, size), unregister_buffer of the handle it gave,
\* then register_buffer(ptr, size) again: the second registration succeeds
\* with a non-zero handle other than the first, and the handle can be used
\* (both ends hold it).  Stated for the IPC client on a connection that is up
\* ------------------------------------------------------------------------
C24_RegisterAfterUnregister ==
    (/\ emu_call.op = "register"
     /\ emu_ctx.connected
     /\ [ptr |-> emu_call.ptr, size |-> emu_call.size] \in emu_call.after.erased)
    => /\ emu_call.rc = 0
       /\ emu_call.handle \notin {0, emu_call.after.handle}
       /\ emu_call.handle \in DOMAIN emu_ctx.srv_buffers
       /\ \E p \in DOMAIN emu_ctx.buffers : emu_ctx.buffers[p].handle = emu_call.handle

\* the mock's half: a registration with a valid pointer and size always
\* succeeds with a handle that was never given before
C24_MockRegisterFresh ==
    [][ (/\ mock_call'.op = "register_buffer"
         /\ mock_call'.ptr # 0
         /\ mock_call'.size # 0)
        => (/\ mock_rc' = 0
            /\ mock_next_handle # 0
            /\ mock_next_handle \notin DOMAIN mock_buffers
            /\ mock_next_handle \in DOMAIN mock_buffers'
            /\ mock_next_handle' > mock_next_handle) ]_vars

\* ------------------------------------------------------------------------
\* C25: an UNREGISTER_BUFFER request received in full is answered OK whether
\* or not its handle is registered; after it the handle is not in the
\* registry and every other entry is as before, so a request naming a handle
\* that is not registered changes nothing
\* ------------------------------------------------------------------------
C25_UnregisterIdempotent ==
    [][ (Dispatched(NPM_EMU_CMD_UNREGISTER_BUFFER) /\ Head(inq).full /\ ServerTook)
        => LET h == Head(inq).p.handle
           IN /\ last_rsp' = npm_emu_header_init(NPM_EMU_CMD_UNREGISTER_BUFFER,
                                                 Head(inq).seq_id, NPM_EMU_STATUS_OK)
              /\ sent' = Append(sent, Head(inq).seq_id)
              /\ DOMAIN buffers' = DOMAIN buffers \ {h}
              /\ \A g \in DOMAIN buffers' : buffers'[g] = buffers[g]
              /\ h \notin DOMAIN buffers => buffers' = buffers ]_vars

\* of two registered handles the first was unregistered and the second is
\* still in the registry
C25_Witness ==
    /\ last_rsp.cmd = NPM_EMU_CMD_UNREGISTER_BUFFER
    /\ last_rsp.status = NPM_EMU_STATUS_OK
    /\ Len(issued) = 2
    /\ DOMAIN buffers = {2}
    /\ nconn = 1

\* ------------------------------------------------------------------------
\* C26: once shutdown has been requested while the server waits for a
\* client, the run loop of the server terminates, also when no client
\* connects afterwards
\* ------------------------------------------------------------------------
C26_ShutdownEndsRun ==
    (g_shutdown_requested /\ pc = "accept") ~> (pc \in {"stopped", "destroyed"})

\* the safety half: after the request the listen socket is closed
C26_ListenSocketClosed ==
    g_shutdown_requested => listen_fd = -1

\* ------------------------------------------------------------------------
\* C27: the server serves one connection at a time: a connection is accepted
\* only when no accepted connection is still open, and every message the
\* server reads comes from the connection accepted last
\* ------------------------------------------------------------------------
C27_OneClientAtATime ==
    LET L == solo.accept_loop
        Served(k) == L.log[k].ev \in {"req", "goodbye", "bad"}
        LastAccept(k) == CHOOSE i \in 0..(k - 1) :
                            /\ i = 0 \/ L.log[i].ev = "accept"
                            /\ \A j \in (i + 1)..(k - 1) : L.log[j].ev # "accept"
    IN /\ Cardinality({ c \in DOMAIN L.cl : L.cl[c].st = "open" }) <= 1
       /\ \A k \in 1..Len(L.log) :
             /\ Served(k) =>
                   /\ LastAccept(k) # 0
                   /\ L.log[LastAccept(k)].c = L.log[k].c
                   /\ \A j \in LastAccept(k)..k : L.log[j].ev # "close"
             /\ L.log[k].ev = "accept" =>
                   \/ LastAccept(k) = 0
                   \/ \E j \in LastAccept(k)..k :
                         L.log[j].ev = "close" /\ L.log[j].c = L.log[LastAccept(k)].c

\* a second client connected and sent its request while the first was being
\* served; its request was read after the first connection was closed
C27_Witness ==
    LET L == solo.accept_loop
    IN \E a, b, c, d \in 1..Len(L.log) :
          /\ a < b /\ b < c /\ c < d
          /\ L.log[a] = [ev |-> "accept", c |-> 1]
          /\ L.log[b] = [ev |-> "send", c |-> 2]
          /\ L.log[c] = [ev |-> "close", c |-> 1]
          /\ L.log[d] = [ev |-> "req", c |-> 2]

\* ------------------------------------------------------------------------
\* C28: a header whose magic is not NPM_EMU_MAGIC or whose major version is
\* not the receiver's fails npm_emu_header_validate; when the server reads
\* such a header it closes the connection, sends no reply, and the registry,
\* the handle counters, the mappings and the hierarchy stay as they were
\* ------------------------------------------------------------------------
C28_BadHeaderRejected ==
    [][ (GotHeader /\ ServerTook
         /\ (Head(inq).magic # NPM_EMU_MAGIC
             \/ Head(inq).version_major # NPM_EMU_VERSION_MAJOR))
        => /\ npm_emu_header_validate(Head(inq)) # 0
           /\ conn' = "closed"
           /\ client_fd' = -1
           /\ pc' = "accept"
           /\ inq' = << >>
           /\ sent' = sent
           /\ handled' = handled
           /\ last_rsp' = NoRsp
           /\ UNCHANGED << buffers, next_handle, next_fence_id, mappings, shm_base,
                           shm_size, mem_hierarchy, dma_model, total_matmul_ops, issued >>
      ]_vars

\* the server closed a connection with a registered buffer while the client
\* was still there, without a shutdown request and without an answer: it read
\* a bad header
C28_Witness ==
    /\ conn = "closed"
    /\ nconn = 1
    /\ ~peer_closed
    /\ last_rsp = NoRsp
    /\ Len(sent) >= 2
    /\ DOMAIN buffers # {}
    /\ pc = "accept"
    /\ ~g_shutdown_requested

\* ------------------------------------------------------------------------
\* C29: for every size > 0 and every alignment, an allocation on a region with
\* mark w and capacity c succeeds exactly when align_up(w, alignment) + size
\* <= c; the offset returned is align_up(w, alignment), a multiple of the
\* alignment and not below w; the mark becomes offset + size; and the mark
\* stays within 0..capacity after every allocation and reset
\* ------------------------------------------------------------------------
C29_AlignUp(w, alignment) == ((w + alignment - 1) \div alignment) * alignment

C29_AllocContractFor(sizes, alignments) ==
    LET R == solo.shm
        a == IF R.last.alignment = 0 THEN 64 ELSE R.last.alignment
        off == C29_AlignUp(R.last.w, a)
    IN /\ 0 <= R.allocated /\ R.allocated <= R.size
       /\ R.last.op = "reset" => R.allocated = 0
       /\ (R.last.op = "alloc" /\ R.last.size \in sizes /\ R.last.alignment \in alignments) =>
             /\ (R.last.offset # -1) <=> (off + R.last.size <= R.size)
             /\ R.last.offset # -1 =>
                   /\ R.last.offset = off
                   /\ R.last.offset % a = 0
                   /\ R.last.offset >= R.last.w
                   /\ R.allocated = off + R.last.size
             /\ R.last.offset = -1 => R.allocated = R.last.w

C29_AllocContract == C29_AllocContractFor(ShmAllocSizes \ {0}, ShmAlignments)

\* the same for alignments that are powers of two (and 0, which stands for 64)
\* and sizes for which offset + size stays below 2^SizeBits
C29_AllocContractPow2 ==
    C29_AllocContractFor({ n \in ShmAllocSizes : 0 < n /\ n < SizeMod - 200 }, {0, 1, 8, 64})

\* ------------------------------------------------------------------------
\* C30: once npm_emu_server_create has returned nullptr, or the server has
\* been destroyed, nothing it acquired is still held: the trace file is not
\* open, the trace context and the server object are freed, no socket is open
\* and no region is mapped
\* ------------------------------------------------------------------------
C30_ResourcesReleased ==
    LET F == solo.life
    IN F.phase \in {"failed", "destroyed"} =>
          /\ F.trace_file # "open"
          /\ F.trace_ctx # "live"
          /\ F.server # "live"
          /\ F.listen_fd # "open"
          /\ F.client_fd # "open"
          /\ F.shm # "mapped"

\* the part that holds: the server object, the sockets and the mapping are
\* released on every exit path, and the destroy frees the trace context
C30_SocketsReleased ==
    LET F == solo.life
    IN /\ F.phase \in {"failed", "destroyed"} =>
             /\ F.server # "live"
             /\ F.listen_fd # "open"
             /\ F.client_fd # "open"
             /\ F.shm # "mapped"
       /\ F.phase = "destroyed" => F.trace_ctx # "live"

\* ------------------------------------------------------------------------
\* C31: the command event a handler writes for its response carries, as its
\* status field, the name of the wire status code of that response; the event
\* written for the request carries REQ
\* ------------------------------------------------------------------------
\* the names of enum npm_emu_status, with or without the trace's ERR_ prefix
C31_WireNames(status) ==
    CASE status = 0 -> {"OK"}
      [] status = 1 -> {"ERROR", "ERR_ERROR"}
      [] status = 2 -> {"VERSION_MISMATCH", "ERR_VERSION_MISMATCH"}
      [] status = 3 -> {"INVALID_HANDLE", "ERR_INVALID_HANDLE"}
      [] status = 4 -> {"OUT_OF_MEMORY", "ERR_OUT_OF_MEMORY"}
      [] status = 5 -> {"INVALID_PARAMS", "ERR_INVALID_PARAMS"}
      [] status = 6 -> {"TIMEOUT", "ERR_TIMEOUT"}
      [] OTHER -> {}

\* every handler passes rsp.status to npm_trace_command after sending rsp
C31_TraceStatusNamesWire ==
    /\ status_to_string(255) = "REQ"
    /\ last_rsp # NoRsp => status_to_string(last_rsp.status) \in C31_WireNames(last_rsp.status)

\* the same for responses with status OK
C31_TraceStatusOk ==
    (last_rsp # NoRsp /\ last_rsp.status = NPM_EMU_STATUS_OK) =>
        status_to_string(last_rsp.status) \in C31_WireNames(last_rsp.status)

\* ------------------------------------------------------------------------
\* C32: when the command line and a loaded config file both give the socket
\* path, the server uses the command line's; the same for trace categories
\* ------------------------------------------------------------------------
C32_TraceCategoriesFromCli ==
    LET M == solo.main
    IN (M.phase # "none" /\ M.file.loaded /\ M.cli.trace # {}
        /\ (M.file.trace_commands \/ M.file.trace_dma)) =>
          M.config.trace_categories =
             IF "A" \in M.cli.trace THEN TraceAll ELSE { TraceBit[o] : o \in M.cli.trace }

C32_CommandLineWins ==
    LET M == solo.main
    IN /\ C32_TraceCategoriesFromCli
       /\ (M.phase # "none" /\ M.file.loaded /\ M.cli.socket # "" /\ M.file.socket # "") =>
             M.config.socket_path = M.cli.socket

\* ------------------------------------------------------------------------
\* C33: a server started with one of the SKU names, by --sku or by the config
\* key sku, answers HELLO with the engine count and the L1 and L2 sizes of
\* that name's row of the SKU table
\* ------------------------------------------------------------------------
\* enum npm_sku value of a name: NPM4K 0, NPM8K 1, NPM16K 2, NPM32K 3, NPM64K 4
C33_SkuOf(name) ==
    CASE name = <<"N", "P", "M", "4", "K">> -> 0
      [] name = <<"N", "P", "M", "8", "K">> -> 1
      [] name = <<"N", "P", "M", "1", "6", "K">> -> 2
      [] name = <<"N", "P", "M", "3", "2", "K">> -> 3
      [] name = <<"N", "P", "M", "6", "4", "K">> -> 4

\* the one name the server was started with, when no L2 size was given
C33_StartedWith(name) ==
    LET M == solo.main
    IN /\ M.phase = "served"
       /\ M.cli.l2_mb = 0
       /\ \/ M.cli.sku = name /\ ~M.file.loaded
          \/ M.file.loaded /\ M.file.sku = name /\ M.cli.sku \in {<< >>, name}

C33_HelloReportsFor(names) ==
    \A name \in names :
       C33_StartedWith(name) =>
          LET row == CHOOSE c \in NPM_SKU_CONFIGS : c.sku = C33_SkuOf(name)
          IN /\ solo.main.hello.num_engines = row.num_engines
             /\ solo.main.hello.l1_size = row.l1_size
             /\ solo.main.hello.l2_size = row.l2_size_default

C33_HelloReportsSkuRow == C33_HelloReportsFor(SkuNames)

\* the same for the four names other than NPM64K
C33_HelloReportsSkuRowBelow64K ==
    C33_HelloReportsFor(SkuNames \ { <<"N", "P", "M", "6", "4", "K">> })

\* ------------------------------------------------------------------------
\* C34: a call of the IPC client that returns success took its result from
\* the response carrying the seq_id of the request the call sent
\* ------------------------------------------------------------------------
C34_ResponseMatchesRequest ==
    (emu_call.op = "matmul" /\ emu_call.rc = 0) => emu_call.rsp.seq_id = emu_call.seq_id

\* ------------------------------------------------------------------------
\* C35: when the server accepts a connection its buffer registry is empty,
\* however the session before ended
\* ------------------------------------------------------------------------
C35_RegistryEmptyAtAccept ==
    [][ (pc = "accept" /\ pc' = "serve") => buffers' = EmptyMap ]_vars

\* the same when the session before ended with GOODBYE
C35_RegistryEmptyAfterGoodbye ==
    [][ (pc = "accept" /\ pc' = "serve" /\ last_rsp.cmd = NPM_EMU_CMD_GOODBYE)
        => buffers' = EmptyMap ]_vars

\* ------------------------------------------------------------------------
\* C36: a HELLO is answered OK only if the region it names was opened and
\* mapped, and from then on shm_base and shm_size are that mapping, not one
\* made for an earlier HELLO
\* ------------------------------------------------------------------------
C36_HelloOkMeansMapped ==
    [][ (Dispatched(NPM_EMU_CMD_HELLO) /\ ServerTook /\ Head(inq).full
         /\ last_rsp'.status = NPM_EMU_STATUS_OK)
        => /\ Head(inq).p.open_ok
           /\ Head(inq).p.map_ok
           /\ shm_base' \notin mappings
           /\ shm_base' \in mappings'
           /\ shm_size' = Head(inq).p.shm_size
      ]_vars

\* the same for the first HELLO the server handles after it has started or
\* after a GOODBYE: no region is attached
C36_FirstHelloOkMeansMapped ==
    [][ (Dispatched(NPM_EMU_CMD_HELLO) /\ ServerTook /\ Head(inq).full
         /\ shm_base = 0 /\ last_rsp'.status = NPM_EMU_STATUS_OK)
        => /\ Head(inq).p.open_ok
           /\ Head(inq).p.map_ok
           /\ shm_base' \notin mappings
           /\ shm_base' \in mappings'
           /\ shm_size' = Head(inq).p.shm_size
      ]_vars

\* ------------------------------------------------------------------------
\* C37: after every completed operation of the IPC client on a live
\* connection, the handles in the client's buffer map are the handles in the
\* server's registry
\* ------------------------------------------------------------------------
C37_ClientHandles == { emu_ctx.buffers[p].handle : p \in DOMAIN emu_ctx.buffers }

C37_ClientMapIsRegistry ==
    (emu_ctx.connected /\ emu_ctx.rxq = << >>) => C37_ClientHandles = DOMAIN emu_ctx.srv_buffers

\* one half holds: the client map holds no handle the server has dropped
C37_ClientMapWithinRegistry ==
    (emu_ctx.connected /\ emu_ctx.rxq = << >>) =>
        C37_ClientHandles \subseteq DOMAIN emu_ctx.srv_buffers

\* ------------------------------------------------------------------------
\* C38: every handle in the dispatcher's buffer-handle cache, and the dequant
\* handle when it is not 0, is registered on the device: the device's map and
\* the emulator's registry both hold it
\* ------------------------------------------------------------------------
C38_OnDevice(handle) ==
    /\ handle \in DOMAIN emu_ctx.srv_buffers
    /\ \E p \in DOMAIN emu_ctx.buffers : emu_ctx.buffers[p].handle = handle

C38_CachedHandlesRegisteredIn(revs) ==
    npm_backend.rev \in revs =>
       /\ \A p \in DOMAIN npm_backend.buffer_handles :
             C38_OnDevice(npm_backend.buffer_handles[p].handle)
       /\ npm_backend.dequant_handle # 0 => C38_OnDevice(npm_backend.dequant_handle)

C38_CachedHandlesRegistered == C38_CachedHandlesRegisteredIn({2, 3})

\* the same for the revision that never unregisters a cached pointer
C38_CachedHandlesRegisteredRev3 == C38_CachedHandlesRegisteredIn({3})

\* ------------------------------------------------------------------------
\* C39: when a stage call is counted as a hit, the resident block was inserted
\* with a size at least the size now asked for
\* ------------------------------------------------------------------------
C39_Tier == IF hier_op.op = "stage_to_l2" THEN hier.l2_model ELSE hier.l1_models[0]

C39_HitCoversRequest ==
    (hier_op.op \in {"stage_to_l2", "stage_to_l1"} /\ hier_op.d_hits = 1) =>
        /\ Live(C39_Tier.blocks, hier_op.key)
        /\ BlockOf(C39_Tier.blocks, hier_op.key).size >= hier_op.size

\* what does hold: a hit returns a block that is resident under the key asked for
C39_HitIsResident ==
    (hier_op.op \in {"stage_to_l2", "stage_to_l1"} /\ hier_op.d_hits = 1) =>
        /\ Live(C39_Tier.blocks, hier_op.key)
        /\ BlockOf(C39_Tier.blocks, hier_op.key).local_offset = hier_op.ret

\* ------------------------------------------------------------------------
\* C40: in each tier the ranges [local_offset, local_offset + size) of the
\* live blocks are pairwise disjoint and within [0, capacity), and used is the
\* sum of the live blocks' sizes
\* ------------------------------------------------------------------------
C40_UsedIsSum(tier) ==
    LET RECURSIVE Sum(_)
        Sum(k) == IF k = 0 THEN 0 ELSE tier.blocks[k].size + Sum(k - 1)
    IN tier.used = Sum(Len(tier.blocks))

C40_RangesDisjoint(tier) ==
    /\ \A i \in 1..Len(tier.blocks) :
          /\ 0 <= tier.blocks[i].local_offset
          /\ tier.blocks[i].local_offset + tier.blocks[i].size <= tier.capacity
    /\ \A i, j \in 1..Len(tier.blocks) :
          i < j => \/ tier.blocks[i].local_offset + tier.blocks[i].size
                         <= tier.blocks[j].local_offset
                   \/ tier.blocks[j].local_offset + tier.blocks[j].size
                         <= tier.blocks[i].local_offset

C40_TierStorageSound ==
    /\ C40_RangesDisjoint(hier.l2_model) /\ C40_UsedIsSum(hier.l2_model)
    /\ C40_RangesDisjoint(hier.l1_models[0]) /\ C40_UsedIsSum(hier.l1_models[0])

\* what does hold: the used counters
C40_UsedCounters == C40_UsedIsSum(hier.l2_model) /\ C40_UsedIsSum(hier.l1_models[0])

\* and the ranges as long as no stage call asked for more than a tier holds
\* and nothing was evicted
C40_SoundWithoutEviction ==
    (/\ hier.l2_misses = Len(hier.l2_model.blocks)
     /\ hier.l2_model.used <= hier.l2_model.capacity)
    => C40_RangesDisjoint(hier.l2_model)

====
